---- MODULE Spec2Model ----
(***************************************************************************)
(* The configuration core of the Arize AX command line client: the profile *)
(* store (ax/config/manager.py), the configuration schema                  *)
(* (ax/config/schema.py) and the environment-variable expansion that load  *)
(* applies between the two.                                                *)
(*                                                                         *)
(* Strings are sequences of characters.  The alphabet has the characters   *)
(* the code looks at (whitespace, "$", "{", "}", ":") and, as single       *)
(* letters, runs of other characters such as "default" or "ak-test123",    *)
(* which the code only ever compares as a whole.  Profile names contain no *)
(* path separator.                                                         *)
(***************************************************************************)
EXTENDS Integers, Sequences, FiniteSets, TLC

VARIABLES
    dirs,     \* the directories of the store that exist
    files,    \* the profile files: path -> content
    marker,   \* the active-profile marker file (ACTIVE_PROFILE_FILE)
    last,     \* the last call: operation, arguments, outcome, result
    input     \* the arguments drawn for a run on chosen arguments, or none

vars == <<dirs, files, marker, last, input>>

store == <<dirs, files, marker>>

(***************************************************************************)
(* Bounds of the model.                                                    *)
(***************************************************************************)
\* how many of ProfilePool's names are used as profile names
NumProfiles == 1

\* how many custom endpoint fields a RoutingConfig(...) call is given
MaxCustom == 1

\* how many pieces (references and text between them) an expanded string has
MaxPieces == 3

\* how many fields besides auth.api_key a configuration to save is built with
MaxOverrides == 2

(***************************************************************************)
(* Strings.                                                                *)
(***************************************************************************)
Whitespace == {" ", "\t", "\n"}

RECURSIVE LStrip(_)
LStrip(s) ==
    IF s # <<>> /\ Head(s) \in Whitespace THEN LStrip(Tail(s)) ELSE s

RECURSIVE RStrip(_)
RStrip(s) ==
    IF s # <<>> /\ s[Len(s)] \in Whitespace
    THEN RStrip(SubSeq(s, 1, Len(s) - 1))
    ELSE s

\* str.strip()
Strip(s) == RStrip(LStrip(s))

\* str.startswith(p), str.endswith(p)
StartsWith(s, p) == Len(s) >= Len(p) /\ SubSeq(s, 1, Len(p)) = p
EndsWith(s, p) ==
    Len(s) >= Len(p) /\ SubSeq(s, Len(s) - Len(p) + 1, Len(s)) = p

\* "${" + name + "}"
Ref(name) == <<"$", "{", name, "}">>

(***************************************************************************)
(* Values of a parsed configuration tree, tagged with their Python type.   *)
(***************************************************************************)
S(s) == [t |-> "str", v |-> s]
I(n) == [t |-> "int", v |-> n]
B(b) == [t |-> "bool", v |-> b]
D(f) == [t |-> "dict", v |-> f]

EmptyDict == D(<<>>)

\* bool(v) of a string: non-empty
Truthy(s) == s # <<>>

(***************************************************************************)
(* The configuration schema (ax/config/schema.py).  A model class takes    *)
(* the mapping of its keyword arguments and gives [ok, value] or           *)
(* [ok, errors], the errors being those of pydantic's ValidationError.     *)
(***************************************************************************)
SectionNames ==
    {"profile", "auth", "routing", "transport", "security", "storage",
     "output"}

StrategyFields == {"region", "single_host", "single_port", "base_domain"}

CustomEndpointFields ==
    {"api_host", "api_scheme", "otlp_host", "otlp_scheme", "flight_host",
     "flight_port", "flight_scheme"}

FieldNames(section) ==
    CASE section = "profile" -> {"name"}
      [] section = "auth" -> {"api_key"}
      [] section = "routing" -> StrategyFields \cup CustomEndpointFields
      [] section = "transport" ->
            {"stream_max_workers", "stream_max_queue_bound",
             "pyarrow_max_chunksize", "max_http_payload_size_mb"}
      [] section = "security" -> {"request_verify"}
      [] section = "storage" -> {"directory", "cache_enabled"}
      [] section = "output" -> {"format"}

\* the annotation of a field
FieldType(section, field) ==
    CASE section = "transport" -> "int|str"
      [] section = "security" -> "bool|str"
      [] section = "storage" /\ field = "cache_enabled" -> "bool"
      [] section = "output" -> "Literal"
      [] OTHER -> "str"

\* auth.api_key is the one field declared without a default
Required(section, field) == section = "auth" /\ field = "api_key"

RoutingDefaults ==
    [region |-> S(<<>>), single_host |-> S(<<>>), single_port |-> S(<<>>),
     base_domain |-> S(<<>>),
     api_host |-> S(<<"api.arize.com">>), api_scheme |-> S(<<"https">>),
     otlp_host |-> S(<<"otlp.arize.com">>), otlp_scheme |-> S(<<"https">>),
     flight_host |-> S(<<"flight.arize.com">>), flight_port |-> S(<<"443">>),
     flight_scheme |-> S(<<"grpc+tls">>)]

TransportDefaults ==
    [stream_max_workers |-> I(8), stream_max_queue_bound |-> I(5000),
     pyarrow_max_chunksize |-> I(10000), max_http_payload_size_mb |-> I(8)]

Default(section, field) ==
    CASE section = "profile" -> S(<<"default">>)
      [] section = "routing" -> RoutingDefaults[field]
      [] section = "transport" -> TransportDefaults[field]
      [] section = "security" -> B(TRUE)
      [] section = "storage" /\ field = "directory" -> S(<<"~/.arize">>)
      [] section = "storage" /\ field = "cache_enabled" -> B(TRUE)
      [] section = "output" -> S(<<"table">>)

OutputFormats == {<<"table">>, <<"json">>, <<"csv">>, <<"parquet">>}

\* Region.list_regions() of the arize package
ValidRegions ==
    {<<"ca-central-1a">>, <<"eu-west-1a">>, <<"us-central-1a">>,
     <<"us-east-1b">>}

Ok(v) == [ok |-> TRUE, v |-> v]
Fail(e) == [ok |-> FALSE, err |-> e]

\* the strings pydantic takes for a bool field, already in lower case
BoolTrueWords == {<<"1">>, <<"true">>, <<"yes">>, <<"on">>, <<"t">>, <<"y">>}
BoolFalseWords == {<<"0">>, <<"false">>, <<"no">>, <<"off">>, <<"f">>, <<"n">>}

\* pydantic's check of a value against a field's annotation
Coerce(type, val) ==
    CASE val.t = "dict" -> Fail("type")
      [] type = "str" -> IF val.t = "str" THEN Ok(val) ELSE Fail("type")
      [] type = "int|str" ->
            IF val.t \in {"int", "str"} THEN Ok(val)
            ELSE Ok(I(IF val.v THEN 1 ELSE 0))
      [] type = "bool|str" ->
            IF val.t \in {"bool", "str"} THEN Ok(val)
            ELSE IF val.v \in {0, 1} THEN Ok(B(val.v = 1))
            ELSE Fail("type")
      [] type = "bool" ->
            IF val.t = "bool" THEN Ok(val)
            ELSE IF val.t = "int"
            THEN (IF val.v \in {0, 1} THEN Ok(B(val.v = 1)) ELSE Fail("type"))
            ELSE IF val.v \in BoolTrueWords THEN Ok(B(TRUE))
            ELSE IF val.v \in BoolFalseWords THEN Ok(B(FALSE))
            ELSE Fail("type")
      [] type = "Literal" ->
            IF val.t = "str" /\ val.v \in OutputFormats THEN Ok(val)
            ELSE Fail("literal")

\* validate_api_key returning the key as given
validate_api_key_NoStrip(v) ==
    IF ~Truthy(v.v) \/ ~Truthy(Strip(v.v))
    THEN Fail("api_key cannot be empty")
    ELSE Ok(v)

\* AuthConfig.validate_api_key
validate_api_key(v) ==
    IF ~Truthy(v.v) \/ ~Truthy(Strip(v.v))
    THEN Fail("api_key cannot be empty")
    ELSE Ok(S(Strip(v.v)))

\* validate_region without the pass for references to the environment
validate_region_NoRefs(v) ==
    IF v.v = <<>> THEN Ok(v)
    ELSE IF v.v \notin ValidRegions THEN Fail("Invalid region")
    ELSE Ok(v)

\* RoutingConfig.validate_region
validate_region(v) ==
    IF v.v = <<>> THEN Ok(v)
    ELSE IF StartsWith(v.v, <<"$", "{">>) /\ EndsWith(v.v, <<"}">>) THEN Ok(v)
    ELSE IF v.v \notin ValidRegions THEN Fail("Invalid region")
    ELSE Ok(v)

\* validate_mutually_exclusive counting single_host and single_port apart
validate_mutually_exclusive_PerField(self) ==
    LET active_count ==
            (IF Truthy(self.region.v) THEN 1 ELSE 0)
            + (IF Truthy(self.single_host.v) THEN 1 ELSE 0)
            + (IF Truthy(self.single_port.v) THEN 1 ELSE 0)
            + (IF Truthy(self.base_domain.v) THEN 1 ELSE 0)
    IN  IF active_count > 1
        THEN Fail({<<"routing", "Only one routing option allowed">>})
        ELSE Ok(self)

\* RoutingConfig.validate_mutually_exclusive, on the validated fields
validate_mutually_exclusive(self) ==
    LET has_region == Truthy(self.region.v)
        has_single == Truthy(self.single_host.v) \/ Truthy(self.single_port.v)
        has_base_domain == Truthy(self.base_domain.v)
        active_count ==
            (IF has_region THEN 1 ELSE 0) + (IF has_single THEN 1 ELSE 0)
            + (IF has_base_domain THEN 1 ELSE 0)
    IN  IF active_count > 1
        THEN Fail({<<"routing", "Only one routing option allowed">>})
        ELSE Ok(self)

\* one field of a model class: default, annotation, then its field validator
ValidateField(section, field, kwargs) ==
    IF field \notin DOMAIN kwargs
    THEN (IF Required(section, field) THEN Fail("Field required")
          ELSE Ok(Default(section, field)))
    ELSE LET c == Coerce(FieldType(section, field), kwargs[field])
         IN  IF ~c.ok THEN c
             ELSE IF section = "auth" /\ field = "api_key"
             THEN validate_api_key(c.v)
             ELSE IF section = "routing" /\ field = "region"
             THEN validate_region(c.v)
             ELSE c

\* a section's model class applied to its keyword arguments; keys that are
\* not fields of the class are ignored (the class sets no "extra")
ModelClass(section, kwargs) ==
    LET r == [f \in FieldNames(section) |-> ValidateField(section, f, kwargs)]
        bad == {f \in FieldNames(section) : ~r[f].ok}
        self == [f \in FieldNames(section) |-> r[f].v]
    IN  IF bad # {}
        THEN Fail({<<section, f, r[f].err>> : f \in bad})
        ELSE IF section = "routing" THEN validate_mutually_exclusive(self)
        ELSE Ok(self)

RoutingConfig(kwargs) == ModelClass("routing", kwargs)
AuthConfig(kwargs) == ModelClass("auth", kwargs)
ProfileConfig(kwargs) == ModelClass("profile", kwargs)

\* Config(**data): unknown top-level keys are forbidden, a missing section
\* other than auth is built by its default factory
Config(data) ==
    LET extra == DOMAIN data \ SectionNames
        given == DOMAIN data \cap SectionNames
        r == [s \in given |->
                IF data[s].t = "dict" THEN ModelClass(s, data[s].v)
                ELSE Fail({<<s, "Input should be a valid dictionary">>})]
        bad == {s \in given : ~r[s].ok}
        errors ==
            UNION {r[s].err : s \in bad}
            \cup {<<k, "Extra inputs are not permitted">> : k \in extra}
            \cup (IF "auth" \in given THEN {}
                  ELSE {<<"auth", "Field required">>})
    IN  IF errors # {} THEN Fail(errors)
        ELSE Ok([s \in SectionNames |->
                    IF s \in given THEN r[s].v
                    ELSE [f \in FieldNames(s) |-> Default(s, f)]])

\* config.model_dump(mode="json", exclude_none=True): no field is None
model_dump(config) == D([s \in SectionNames |-> D(config[s])])

(***************************************************************************)
(* Environment-variable expansion (ax/config/manager.py).  The process     *)
(* environment is a function from variable names to values; a call's       *)
(* environment is an argument of the operators below.                      *)
(***************************************************************************)
\* how many characters from position i on are outside the set stop
RECURSIVE RunLen(_, _, _)
RunLen(s, i, stop) ==
    IF i > Len(s) \/ s[i] \in stop THEN 0 ELSE 1 + RunLen(s, i + 1, stop)

NoMatch == [found |-> FALSE]

\* the regular expression \$\{([^}:]+)(?::([^}]*))?\} matched at the start
\* of s: group 1, whether group 2 took part, group 2, the match's length
MatchAt(s) ==
    LET n == RunLen(s, 3, {"}", ":"})
        p == 3 + n
    IN  IF ~StartsWith(s, <<"$", "{">>) \/ n = 0 \/ p > Len(s) THEN NoMatch
        ELSE IF s[p] = "}"
        THEN [found |-> TRUE, len |-> p, var_name |-> SubSeq(s, 3, p - 1),
              has_default |-> FALSE, default_value |-> <<>>]
        ELSE LET m == RunLen(s, p + 1, {"}"})
                 q == p + 1 + m
             IN  IF q > Len(s) THEN NoMatch
                 ELSE [found |-> TRUE, len |-> q,
                       var_name |-> SubSeq(s, 3, p - 1),
                       has_default |-> TRUE,
                       default_value |-> SubSeq(s, p + 1, q - 1)]

\* replace_var testing the default for truth instead of "is not None"
replace_var_Truthy(match, environ) ==
    IF match.var_name \in DOMAIN environ THEN Ok(environ[match.var_name])
    ELSE IF match.has_default /\ Truthy(match.default_value)
    THEN Ok(match.default_value)
    ELSE Fail([type |-> "ValueError", detail |-> match.var_name])

\* the replacement of one match
replace_var(match, environ) ==
    IF match.var_name \in DOMAIN environ THEN Ok(environ[match.var_name])
    ELSE IF match.has_default THEN Ok(match.default_value)
    ELSE Fail([type |-> "ValueError", detail |-> match.var_name])

\* re.sub(pattern, replace_var, value): the matches are taken left to right
\* and do not overlap; the first failing replacement ends the call
RECURSIVE re_sub(_, _)
re_sub(s, environ) ==
    IF s = <<>> THEN Ok(<<>>)
    ELSE LET m == MatchAt(s)
         IN  IF ~m.found
             THEN LET rest == re_sub(Tail(s), environ)
                  IN  IF rest.ok THEN Ok(<<Head(s)>> \o rest.v) ELSE rest
             ELSE LET r == replace_var(m, environ)
                  IN  IF ~r.ok THEN r
                      ELSE LET rest ==
                                   re_sub(SubSeq(s, m.len + 1, Len(s)), environ)
                           IN  IF rest.ok THEN Ok(r.v \o rest.v) ELSE rest

_expand_env_var(value, environ) ==
    IF value.t # "str" THEN Ok(value)
    ELSE LET r == re_sub(value.v, environ)
         IN  IF r.ok THEN Ok(S(r.v)) ELSE r

\* the error raised is that of the first failing key in the mapping's order,
\* which the model does not keep: any failing key stands for it
RECURSIVE _expand_config_dict(_, _)
_expand_config_dict(data, environ) ==
    LET r == [key \in DOMAIN data.v |->
                IF data.v[key].t = "dict"
                THEN _expand_config_dict(data.v[key], environ)
                ELSE IF data.v[key].t = "str"
                THEN _expand_env_var(data.v[key], environ)
                ELSE Ok(data.v[key])]
        bad == {key \in DOMAIN data.v : ~r[key].ok}
    IN  IF bad # {} THEN r[CHOOSE key \in bad : TRUE]
        ELSE Ok(D([key \in DOMAIN data.v |-> r[key].v]))

IsNone(v) == v.t = "none"

\* _remove_empty_values without its recursion into nested dicts
_remove_empty_values_TopLevel(obj) ==
    IF obj.t = "dict"
    THEN D([k \in {k \in DOMAIN obj.v : obj.v[k] # S(<<>>) /\ ~IsNone(obj.v[k])}
              |-> obj.v[k]])
    ELSE obj

\* _remove_empty_values
RECURSIVE _remove_empty_values(_)
_remove_empty_values(obj) ==
    IF obj.t = "dict"
    THEN D([k \in {k \in DOMAIN obj.v : obj.v[k] # S(<<>>) /\ ~IsNone(obj.v[k])}
              |-> _remove_empty_values(obj.v[k])])
    ELSE obj

(***************************************************************************)
(* The profile store on disk (ax/config/manager.py, ConfigManager).        *)
(***************************************************************************)
DEFAULT_CONFIG_FILE == [dir |-> "CONFIG_DIR", name |-> <<"config", ".toml">>]

_get_config_path(profile) ==
    IF profile = <<"default">> THEN DEFAULT_CONFIG_FILE
    ELSE [dir |-> "PROFILES_DIR", name |-> profile \o <<".toml">>]

\* Path.stem: the file name without its last suffix
Stem(name) ==
    IF Len(name) > 1 /\ name[Len(name)] = ".toml"
    THEN SubSeq(name, 1, Len(name) - 1)
    ELSE name

\* the order of Python's string comparison on the characters of the model
CharOrder ==
    <<"\t", "\n", " ", ".toml", "default", "dev", "prod", "staging", "test">>

Rank(c) == CHOOSE i \in 1..Len(CharOrder) : CharOrder[i] = c

RECURSIVE StrLess(_, _)
StrLess(a, b) ==
    IF a = <<>> THEN b # <<>>
    ELSE IF b = <<>> THEN FALSE
    ELSE IF Head(a) = Head(b) THEN StrLess(Tail(a), Tail(b))
    ELSE Rank(Head(a)) < Rank(Head(b))

\* sorted(...) of a set of strings
RECURSIVE Sorted(_)
Sorted(set) ==
    IF set = {} THEN <<>>
    ELSE LET m == CHOOSE x \in set : \A y \in set \ {x} : StrLess(x, y)
         IN  <<m>> \o Sorted(set \ {m})

Exists(path) == path \in DOMAIN files

\* list_profiles putting "default" first and sorting the other names
list_profiles_DefaultFirst ==
    LET profiles == IF Exists(DEFAULT_CONFIG_FILE) THEN <<<<"default">>>>
                    ELSE <<>>
        stems ==
            IF "PROFILES_DIR" \in dirs
            THEN {Stem(path.name) :
                    path \in {q \in DOMAIN files :
                                /\ q.dir = "PROFILES_DIR"
                                /\ EndsWith(q.name, <<".toml">>)}}
            ELSE {}
    IN  profiles \o Sorted(stems)

\* ConfigManager.list_profiles: _get_config_path never puts a second
\* "default" into the profiles directory, so the names are distinct
list_profiles ==
    LET profiles == IF Exists(DEFAULT_CONFIG_FILE) THEN {<<"default">>} ELSE {}
        stems ==
            IF "PROFILES_DIR" \in dirs
            THEN {Stem(path.name) :
                    path \in {q \in DOMAIN files :
                                /\ q.dir = "PROFILES_DIR"
                                /\ EndsWith(q.name, <<".toml">>)}}
            ELSE {}
    IN  Sorted(profiles \cup stems)

\* ConfigManager.exists
exists(profile) == Exists(_get_config_path(profile))

\* Path.read_text() of the marker
ReadMarker ==
    CASE marker.kind = "file" -> Ok(marker.text)
      [] marker.kind = "dir" -> Fail("IsADirectoryError")
      [] marker.kind = "noperm" -> Fail("PermissionError")
      [] marker.kind = "binary" -> Fail("UnicodeDecodeError")

Return(kind, v) == [kind |-> kind, v |-> v]
None == [kind |-> "None"]
Raise(type, msg, cause) ==
    [kind |-> "raise", type |-> type, msg |-> msg, cause |-> cause]

NoCause == [type |-> "none"]

\* get_active_profile returning the marker's text as it is
GetActiveProfile_NoStrip ==
    IF marker.kind # "missing"
    THEN (IF ReadMarker.ok THEN Return("str", ReadMarker.v)
          ELSE Return("str", <<"default">>))
    ELSE Return("str", <<"default">>)

\* ConfigManager.get_active_profile: what the call returns or raises
GetActiveProfile ==
    IF marker.kind # "missing"
    THEN (IF ReadMarker.ok THEN Return("str", Strip(ReadMarker.v))
          ELSE Return("str", <<"default">>))
    ELSE Return("str", <<"default">>)

\* the value of get_active_profile() in the code that calls it
get_active_profile == GetActiveProfile.v

\* tomllib.load of a profile file: a file written by save holds the document
\* it was given, an empty file is the empty document, other text is no TOML
tomllib_load(content) ==
    IF content.kind = "toml" THEN Ok(content.data)
    ELSE IF content.text = <<>> THEN Ok(EmptyDict)
    ELSE Fail([type |-> "TOMLDecodeError", detail |-> content.text])

\* data = _expand_config_dict(data), when expand_env_vars
LoadExpand(data, expand_env_vars, environ) ==
    IF ~data.ok THEN data
    ELSE IF expand_env_vars THEN _expand_config_dict(data.v, environ)
    ELSE data

\* Config(**data) raising ValidationError
LoadConfig(c) ==
    IF c.ok THEN c ELSE Fail([type |-> "ValidationError", detail |-> c.err])

\* return Config(**data)
LoadValidate(data) ==
    IF ~data.ok THEN data ELSE LoadConfig(Config(data.v.v))

\* the try block of ConfigManager.load
LoadBody(config_path, expand_env_vars, environ) ==
    LoadValidate(LoadExpand(tomllib_load(files[config_path]),
                            expand_env_vars, environ))

\* load catching ValidationError alone
LoadExcept_ValidationOnly(e) ==
    IF e.type = "ValidationError"
    THEN Raise("ConfigError", "Invalid config file", e)
    ELSE Raise(e.type, "", e)

\* the except clauses of ConfigManager.load
LoadExcept(e) ==
    IF e.type = "ValidationError"
    THEN Raise("ConfigError", "Invalid config file", e)
    ELSE Raise("ConfigError", "Failed to load config", e)

\* load falling back to "default" instead of the active profile
LoadProfile_Default(profile) ==
    IF profile = <<>> THEN <<"default">> ELSE profile

\* the profile ConfigManager.load reads
LoadProfile(profile) ==
    IF profile = <<>> THEN get_active_profile ELSE profile

\* what load returns or raises for the outcome of its try block
LoadResult(r) ==
    IF r.ok THEN Return("Config", r.v) ELSE LoadExcept(r.err)

\* load reading the default profile when the profile's file is missing
load_Fallback(profile, expand_env_vars, environ) ==
    LET config_path == _get_config_path(LoadProfile(profile))
    IN  IF ~Exists(config_path)
        THEN LoadResult(LoadBody(DEFAULT_CONFIG_FILE, expand_env_vars,
                                 environ))
        ELSE LoadResult(LoadBody(config_path, expand_env_vars, environ))

\* ConfigManager.load: what the call returns or raises in the current store
load(profile, expand_env_vars, environ) ==
    LET config_path == _get_config_path(LoadProfile(profile))
    IN  IF ~Exists(config_path)
        THEN Raise("ConfigError", "not found", NoCause)
        ELSE LoadResult(LoadBody(config_path, expand_env_vars, environ))

\* save without setting config.profile.name
SavedData_NoRename(config, profile) ==
    _remove_empty_values(model_dump(config))

\* the document ConfigManager.save writes for a configuration
SavedData(config, profile) ==
    LET named == [config EXCEPT !.profile.name = S(profile)]
    IN  _remove_empty_values(model_dump(named))

WriteFile(path, content) ==
    [p \in DOMAIN files \cup {path} |-> IF p = path THEN content ELSE files[p]]

\* Path.unlink() taking every file of the directory with it
Unlink_Directory(path) ==
    [p \in {q \in DOMAIN files : q.dir # path.dir} |-> files[p]]

Unlink(path) == [p \in DOMAIN files \ {path} |-> files[p]]

\* delete_profile without its check of the active profile
DeleteGuard_DefaultOnly(profile) ==
    IF profile = <<"default">> THEN "Cannot delete the default profile"
    ELSE ""

\* the guards of ConfigManager.delete_profile: the message of the ConfigError
\* raised, or "" when the call goes on
DeleteGuard(profile) ==
    IF profile = <<"default">> THEN "Cannot delete the default profile"
    ELSE IF profile = get_active_profile THEN "Cannot delete active profile"
    ELSE ""

\* delete_profile with the test of config_path.exists() inverted
DeleteFile_Inverted(profile) ==
    IF ~exists(profile) THEN Unlink(_get_config_path(profile)) ELSE files

\* the files after the removal in ConfigManager.delete_profile
DeleteFile(profile) ==
    IF exists(profile) THEN Unlink(_get_config_path(profile)) ELSE files

\* Path.write_text(text) on the marker
WriteMarker(text) ==
    CASE marker.kind = "dir" -> Fail("IsADirectoryError")
      [] marker.kind = "noperm" -> Fail("PermissionError")
      [] OTHER -> Ok([kind |-> "file", text |-> text])

(***************************************************************************)
(* The arguments of the calls.                                             *)
(***************************************************************************)
ProfilePool == <<<<"dev">>, <<"prod">>, <<"staging">>, <<"test">>>>

\* the names given to `ax config init`, `use`, `delete` and --profile: the
\* reserved name, plain names, and a name typed with a space in front
ProfileNames ==
    {<<"default">>} \cup {ProfilePool[i] : i \in 1..NumProfiles}
    \cup {<<" ">> \o ProfilePool[1]}

\* --profile and the arguments of `use` and `delete` may also be empty
ArgNames == ProfileNames \cup {<<>>}

\* the environments of a call
Environments ==
    {<<>>,
     [n \in {<<"TEST_API_KEY">>, <<"REGION">>} |->
        IF n = <<"TEST_API_KEY">> THEN <<"ak-from-env">> ELSE <<"INVALID">>]}

\* Config(profile=ProfileConfig(name="wrong_name"),
\*        auth=AuthConfig(api_key="ak-test123"),
\*        routing=RoutingConfig(region="us-east-1b"))
LiteralConfig ==
    Config([profile |-> D([name |-> S(<<"wrong_name">>)]),
            auth |-> D([api_key |-> S(<<"ak-test123">>)]),
            routing |-> D([region |-> S(<<"us-east-1b">>)])]).v

\* a configuration of references to the environment
RefConfig ==
    Config([auth |-> D([api_key |-> S(Ref("TEST_API_KEY"))]),
            routing |-> D([region |-> S(Ref("REGION"))])]).v

SaveConfigs == {LiteralConfig, RefConfig}

\* the arguments of save: drawn at each call unless the run is on chosen ones
SaveArgs ==
    IF input.kind = "save" THEN {<<input.config, input.profile>>}
    ELSE SaveConfigs \X ProfileNames

\* expand_env_vars and the environment of a call of load; without expansion
\* load does not read the environment
LoadArgs ==
    {[expand_env_vars |-> FALSE, environ |-> <<>>]}
    \cup (IF input.kind = "save" THEN {}
          ELSE [expand_env_vars : {TRUE}, environ : Environments])

\* the profiles load is called with
LoadNames == IF input.kind = "save" THEN {input.profile} ELSE ArgNames

NoInput == [kind |-> "none"]

Call(op, profile, args, ret) ==
    [op |-> op, profile |-> profile, args |-> args, ret |-> ret]

NoArgs == <<>>

(***************************************************************************)
(* The store after construction: nothing on disk.                          *)
(***************************************************************************)
EmptyStore ==
    /\ dirs = {}
    /\ files = <<>>
    /\ marker = [kind |-> "missing"]

Init ==
    /\ EmptyStore
    /\ last = Call("none", <<>>, NoArgs, None)
    /\ input = NoInput

(***************************************************************************)
(* The operations of ConfigManager.                                        *)
(***************************************************************************)
\* ConfigManager._ensure_dirs
_ensure_dirs == dirs \cup {"CONFIG_DIR", "PROFILES_DIR"}

\* ConfigManager.save
save ==
    \E a \in SaveArgs :
        LET config == a[1]
            profile == a[2]
            config_path == _get_config_path(profile)
        IN  /\ dirs' = _ensure_dirs
            /\ files' = WriteFile(config_path,
                                  [kind |-> "toml",
                                   data |-> SavedData(config, profile)])
            /\ last' = Call("save", profile, [config |-> config], None)
            /\ UNCHANGED <<marker, input>>

\* ConfigManager.set_active_profile
set_active_profile ==
    \E profile \in ArgNames :
        /\ IF ~exists(profile)
           THEN /\ last' = Call("set_active_profile", profile, NoArgs,
                                Raise("ConfigError", "does not exist",
                                      [type |-> "none",
                                       available |-> list_profiles]))
                /\ UNCHANGED marker
           ELSE LET w == WriteMarker(profile)
                IN  IF w.ok
                    THEN /\ marker' = w.v
                         /\ last' = Call("set_active_profile", profile,
                                         NoArgs, None)
                    ELSE /\ last' = Call("set_active_profile", profile,
                                         NoArgs, Raise(w.err, "", NoCause))
                         /\ UNCHANGED marker
        /\ UNCHANGED <<dirs, files, input>>

\* ConfigManager.delete_profile
delete_profile ==
    \E profile \in ArgNames :
        /\ IF DeleteGuard(profile) # ""
           THEN /\ last' = Call("delete_profile", profile,
                                [unlinked |-> FALSE],
                                Raise("ConfigError", DeleteGuard(profile),
                                      NoCause))
                /\ UNCHANGED files
           ELSE /\ files' = DeleteFile(profile)
                /\ last' = Call("delete_profile", profile,
                                [unlinked |-> exists(profile)], None)
        /\ UNCHANGED <<dirs, marker, input>>

\* a call of ConfigManager.load
LoadCall ==
    \E profile \in LoadNames, a \in LoadArgs :
        /\ last' = Call("load", profile, a,
                        load(profile, a.expand_env_vars, a.environ))
        /\ UNCHANGED <<dirs, files, marker, input>>

\* a call of ConfigManager.get_active_profile
GetActiveProfileCall ==
    /\ last' = Call("get_active_profile", <<>>, NoArgs, GetActiveProfile)
    /\ UNCHANGED <<dirs, files, marker, input>>

\* a call of ConfigManager.list_profiles
ListProfilesCall ==
    /\ last' = Call("list_profiles", <<>>, NoArgs,
                    Return("list", list_profiles))
    /\ UNCHANGED <<dirs, files, marker, input>>

\* a call of ConfigManager.exists
ExistsCall ==
    \E profile \in ArgNames :
        /\ last' = Call("exists", profile, NoArgs,
                        Return("bool", exists(profile)))
        /\ UNCHANGED <<dirs, files, marker, input>>

Next ==
    \/ save
    \/ set_active_profile
    \/ delete_profile
    \/ LoadCall
    \/ GetActiveProfileCall
    \/ ListProfilesCall
    \/ ExistsCall

Spec == Init /\ [][Next]_vars

(***************************************************************************)
(* The store as it is found on disk: profile files that are empty, are no  *)
(* TOML or hold a saved configuration, and a marker that is missing, a     *)
(* directory, unreadable, not text, or a file of any content.  The calls   *)
(* that create no profile file run on it.                                  *)
(***************************************************************************)
FixtureNames == {<<"default">>, ProfilePool[1]}

FixtureContents(profile) ==
    {[kind |-> "text", text |-> <<>>],
     [kind |-> "text", text |-> <<"not toml">>]}
    \cup {[kind |-> "toml", data |-> SavedData(c, profile)] : c \in SaveConfigs}

FixtureFiles ==
    UNION {{f \in [{_get_config_path(n) : n \in present} ->
                    UNION {FixtureContents(n) : n \in present}] :
                \A n \in present :
                    f[_get_config_path(n)] \in FixtureContents(n)} :
            present \in SUBSET FixtureNames}

FixtureMarkers ==
    {[kind |-> "missing"], [kind |-> "dir"], [kind |-> "noperm"],
     [kind |-> "binary"]}
    \cup {[kind |-> "file", text |-> t] :
            t \in {<<>>, ProfilePool[1], <<" ">> \o ProfilePool[1] \o <<"\n">>,
                   <<"default">>, <<"staging">>}}

InitDisk ==
    /\ dirs = {"CONFIG_DIR", "PROFILES_DIR"}
    /\ files \in FixtureFiles
    /\ marker \in FixtureMarkers
    /\ last = Call("none", <<>>, NoArgs, None)
    /\ input = NoInput

NextDisk ==
    \/ set_active_profile
    \/ delete_profile
    \/ LoadCall
    \/ GetActiveProfileCall
    \/ ListProfilesCall
    \/ ExistsCall

SpecDisk == InitDisk /\ [][NextDisk]_vars

(***************************************************************************)
(* RoutingConfig(...) on chosen keyword arguments: each strategy field is  *)
(* left out, empty or set (the region also to a reference and to a name    *)
(* that is no region), and custom endpoint fields are left out, emptied or *)
(* set.                                                                    *)
(***************************************************************************)
StrategyValues(field) ==
    CASE field = "region" ->
            {<<>>, <<"us-east-1b">>, Ref("REGION"), <<"INVALID">>}
      [] field = "single_host" -> {<<>>, <<"x.com">>}
      [] field = "single_port" -> {<<>>, <<"443">>}
      [] field = "base_domain" -> {<<>>, <<"example.com">>}

StrategyKwargs ==
    UNION {{k \in [d -> {S(v) : v \in UNION {StrategyValues(f) : f \in d}}] :
                \A f \in d : k[f].v \in StrategyValues(f)} :
            d \in SUBSET StrategyFields}

CustomKwargs ==
    UNION {[d -> {S(<<>>), S(<<"custom">>)}] :
            d \in {c \in SUBSET CustomEndpointFields :
                     Cardinality(c) <= MaxCustom}}

RoutingKwargs == {k @@ c : k \in StrategyKwargs, c \in CustomKwargs}

InitRouting ==
    /\ EmptyStore
    /\ last = Call("none", <<>>, NoArgs, None)
    /\ input \in {[kind |-> "RoutingConfig", kwargs |-> k] :
                    k \in RoutingKwargs}

\* a call of RoutingConfig(**kwargs)
RoutingConfigCall ==
    /\ input.kind = "RoutingConfig"
    /\ last' = Call("RoutingConfig", <<>>, input.kwargs,
                    RoutingConfig(input.kwargs))
    /\ UNCHANGED <<dirs, files, marker, input>>

NextRouting == RoutingConfigCall

SpecRouting == InitRouting /\ [][NextRouting]_vars

(***************************************************************************)
(* save and load on chosen configurations: Config(...) built from an       *)
(* api_key and a few other fields, each given a value other than its       *)
(* default, the empty string among them.                                   *)
(***************************************************************************)
FieldValues(section, field) ==
    CASE section = "profile" -> {S(<<"wrong_name">>)}
      [] section = "auth" ->
            {S(<<"ak-test123">>), S(<<" ", "ak-test123", "\n">>),
             S(Ref("TEST_API_KEY"))}
      [] section = "routing" /\ field \in StrategyFields ->
            {S(v) : v \in StrategyValues(field) \ {<<"INVALID">>}}
      [] section = "routing" /\ field \notin StrategyFields ->
            {S(<<>>), S(<<"custom">>)}
      [] section = "transport" ->
            {I(16), S(<<"16">>), S(<<>>), S(Ref("WORKERS"))}
      [] section = "security" -> {B(FALSE), S(<<"false">>), S(<<>>)}
      [] section = "storage" /\ field = "directory" ->
            {S(<<>>), S(<<"/tmp/arize">>)}
      [] section = "storage" /\ field = "cache_enabled" -> {B(FALSE)}
      [] section = "output" -> {S(<<"json">>)}

\* the fields other than auth.api_key
OptionalFields ==
    {p \in UNION {{<<s, f>> : f \in FieldNames(s)} : s \in SectionNames} :
        ~Required(p[1], p[2])}

\* the ways of giving each field of a set a value
RECURSIVE Assignments(_)
Assignments(fields) ==
    IF fields = {} THEN {<<>>}
    ELSE LET p == CHOOSE p \in fields : TRUE
         IN  {a @@ (p :> v) : a \in Assignments(fields \ {p}),
                               v \in FieldValues(p[1], p[2])}

\* the keyword arguments of Config(...) for an api_key and an assignment
ConfigData(api_key, a) ==
    [s \in {"auth"} \cup {p[1] : p \in DOMAIN a} |->
        IF s = "auth" THEN D([api_key |-> api_key])
        ELSE D([f \in {p[2] : p \in {q \in DOMAIN a : q[1] = s}} |->
                  a[<<s, f>>]])]

\* the configurations built with at most max fields besides the api_key
RoundTripConfigs(max) ==
    LET data == {ConfigData(k, a) :
                    k \in FieldValues("auth", "api_key"),
                    a \in UNION {Assignments(fields) :
                            fields \in {c \in SUBSET OptionalFields :
                                          Cardinality(c) <= max}}}
    IN  {Config(d).v : d \in {d \in data : Config(d).ok}}

InitRoundTrip ==
    /\ EmptyStore
    /\ last = Call("none", <<>>, NoArgs, None)
    /\ input \in [kind : {"save"}, config : RoundTripConfigs(MaxOverrides),
                   profile : FixtureNames]

NextRoundTrip ==
    \/ save
    \/ LoadCall

SpecRoundTrip == InitRoundTrip /\ [][NextRoundTrip]_vars

(***************************************************************************)
(* _expand_env_var on chosen strings: a string is written as a few pieces, *)
(* each a reference ${NAME} or ${NAME:DEFAULT} or text that holds no       *)
(* reference, and the environment sets TEST_VAR or not.                    *)
(***************************************************************************)
\* text between references; "${}" and "${:x}" are no references
TextPieces ==
    {<<"-">>, <<" ">>, <<":">>, <<"}">>, <<"$">>, <<"$", "{", "}">>,
     <<"$", "{", ":", "x", "}">>}

RefDefaults == {<<>>, <<"fallback">>, <<"a", ":", "b">>}

RefNames == {<<"TEST_VAR">>, <<"UNSET_VAR">>}

Pieces ==
    [kind : {"text"}, text : TextPieces]
    \cup [kind : {"ref"}, var_name : RefNames, has_default : {FALSE},
          default_value : {<<>>}]
    \cup [kind : {"ref"}, var_name : RefNames, has_default : {TRUE},
          default_value : RefDefaults]

\* the characters of a piece
PieceText(p) ==
    IF p.kind = "text" THEN p.text
    ELSE IF p.has_default
    THEN <<"$", "{">> \o p.var_name \o <<":">> \o p.default_value \o <<"}">>
    ELSE <<"$", "{">> \o p.var_name \o <<"}">>

RECURSIVE Concat(_)
Concat(seqs) == IF seqs = <<>> THEN <<>> ELSE Head(seqs) \o Concat(Tail(seqs))

\* the sequences of at most n pieces
PieceSeqs(n) == UNION {[1..k -> Pieces] : k \in 0..n}

\* os.environ: TEST_VAR unset, set, set to the empty string, or set to the
\* text of a reference
ExpandEnvironments ==
    {<<>>}
    \cup {[n \in {<<"TEST_VAR">>} |-> v] :
            v \in {<<"hello">>, <<>>, <<"$", "{", "UNSET_VAR", "}">>}}

InitExpand ==
    /\ EmptyStore
    /\ last = Call("none", <<>>, NoArgs, None)
    /\ input \in [kind : {"_expand_env_var"}, pieces : PieceSeqs(MaxPieces),
                   environ : ExpandEnvironments]

\* a call of _expand_env_var(value) under an environment
ExpandEnvVarCall ==
    /\ input.kind = "_expand_env_var"
    /\ LET value == Concat([i \in 1..Len(input.pieces) |->
                              PieceText(input.pieces[i])])
       IN  last' = Call("_expand_env_var", <<>>,
                        [value |-> value, environ |-> input.environ],
                        _expand_env_var(S(value), input.environ))
    /\ UNCHANGED <<dirs, files, marker, input>>

NextExpand == ExpandEnvVarCall

SpecExpand == InitExpand /\ [][NextExpand]_vars

(***************************************************************************)
(* The Config model on raw mappings, as tomllib gives them: auth is left   *)
(* out, is empty, or holds an api_key; at most one other field is          *)
(* given; and a key that is no field is put nowhere, at the top level, or  *)
(* inside one section.                                                     *)
(***************************************************************************)
RawApiKeys ==
    {S(<<>>), S(<<" ">>), S(<<" ", "\t", "\n">>), S(<<"ak-test123">>),
     S(<<" ", "ak-test123", "\n">>), S(Ref("TEST_API_KEY")), I(123)}

\* the mappings without an unknown key
RawData ==
    LET optional == UNION {Assignments(fields) :
                            fields \in {c \in SUBSET OptionalFields :
                                          Cardinality(c) <= 1}}
    IN  {ConfigData(k, a) : k \in RawApiKeys, a \in optional}
        \cup {[s \in DOMAIN d \ {"auth"} |-> d[s]] :
                d \in {ConfigData(S(<<>>), a) : a \in optional}}
        \cup {[s \in DOMAIN d |-> IF s = "auth" THEN EmptyDict ELSE d[s]] :
                d \in {ConfigData(S(<<>>), a) : a \in optional}}

\* data with the key extra_field added at the top level or inside a section
WithUnknown(data, where) ==
    LET extra == [k \in {"extra_field"} |-> S(<<"not_allowed">>)]
    IN  CASE where = "nowhere" -> data
          [] where = "top" -> data @@ extra
          [] OTHER ->
                [s \in DOMAIN data \cup {where} |->
                    IF s # where THEN data[s]
                    ELSE IF s \in DOMAIN data THEN D(data[s].v @@ extra)
                    ELSE D(extra)]

InitValidate ==
    /\ EmptyStore
    /\ last = Call("none", <<>>, NoArgs, None)
    /\ input \in [kind : {"Config"}, data : RawData,
                   unknown : {"nowhere", "top"} \cup SectionNames]

\* a call of Config(**data)
ConfigCall ==
    /\ input.kind = "Config"
    /\ last' = Call("Config", <<>>,
                    WithUnknown(input.data, input.unknown),
                    Config(WithUnknown(input.data, input.unknown)))
    /\ UNCHANGED <<dirs, files, marker, input>>

NextValidate == ConfigCall

SpecValidate == InitValidate /\ [][NextValidate]_vars

(***************************************************************************)
(* Error classification (ax/core/error_formatter.py) and the command       *)
(* boundary (ax/core/decorators.py).  An error is the sequence of its      *)
(* __cause__ chain: chain[1] is the error, chain[i + 1] the __cause__ of   *)
(* chain[i].  The text of an exception is its length in characters and     *)
(* the sequence of its parts that the three regular expressions can match: *)
(*   "with message"  with message:\s*([^.]+)\.?\s*gRPC, msg its group 1    *)
(*   "grpc_message"  grpc_message:"([^"]+)", msg its group 1               *)
(*   "grpc_status"   grpc_status: and the digits that follow it, if any    *)
(*   "other"         text that no pattern matches                          *)
(***************************************************************************)
MaxChain == 3

NoneValue == [t |-> "none", v |-> <<>>]

\* exit_code with every subclass keeping AxError's code
exit_code_Base ==
    [cls \in {"AxError", "UsageError", "AuthenticationError", "APIError",
              "FileIOError", "ConfigError", "InvalidClientError"} |-> 1]

\* exit_code of AxError and its subclasses
exit_code ==
    [cls \in {"AxError", "UsageError", "AuthenticationError", "APIError",
              "FileIOError", "ConfigError", "InvalidClientError"} |->
        CASE cls = "AxError" -> 1
          [] cls = "UsageError" -> 2
          [] cls = "AuthenticationError" -> 3
          [] cls = "APIError" -> 4
          [] cls = "FileIOError" -> 5
          [] cls = "ConfigError" -> 1
          [] cls = "InvalidClientError" -> 2]

\* isinstance(current, cls); typer.Exit is click's Exit, a RuntimeError
isinstance(current, cls) ==
    \/ current.cls = cls
    \/ cls = "AxError" /\ current.cls \in DOMAIN exit_code
    \/ cls = "RuntimeError" /\ current.cls = "Exit"
    \/ cls = "Exception" /\ current.cls \notin {"KeyboardInterrupt"}

grpc_to_http ==
    [code \in 0..16 |->
        <<<<200, "OK">>, <<499, "Client Closed Request">>,
          <<500, "Internal Server Error">>, <<400, "Invalid Argument">>,
          <<504, "Gateway Timeout">>, <<404, "Not Found">>,
          <<409, "Conflict">>, <<403, "Permission Denied">>,
          <<429, "Too Many Requests">>, <<412, "Failed Precondition">>,
          <<409, "Conflict">>, <<400, "Out of Range">>,
          <<501, "Not Implemented">>, <<500, "Internal Server Error">>,
          <<503, "Service Unavailable">>, <<500, "Internal Server Error">>,
          <<401, "Unauthenticated">>>>[code + 1]]

\* the length from which parse_grpc_error cuts the body
BodyLimit == 500

ParsedError(status, reason, detail, headers, body) ==
    [title |-> NoneValue, status |-> status, type |-> NoneValue,
     detail |-> detail, instance |-> NoneValue, reason |-> reason,
     headers |-> headers, body |-> body]

\* the first of the positions at which a walk from the front stops, 0 when
\* it ends without stopping
Walk(positions) ==
    IF positions = {} THEN 0
    ELSE CHOOSE i \in positions : \A j \in positions : i <= j

parse_api_exception(exception) ==
    LET i == Walk({k \in 1..Len(exception) :
                     isinstance(exception[k], "ApiException")})
    IN  IF i = 0 THEN None
        ELSE LET api_exception == exception[i]
                 parsed == ParsedError(I(api_exception.status),
                                       S(api_exception.reason),
                                       NoneValue,
                                       IF api_exception.headers.v # <<>>
                                       THEN api_exception.headers
                                       ELSE NoneValue,
                                       api_exception.body)
             IN  IF api_exception.data.t = "Problem"
                 THEN [parsed EXCEPT !.title = api_exception.data.v.title,
                                     !.detail = api_exception.data.v.detail,
                                     !.type = api_exception.data.v.type,
                                     !.instance = api_exception.data.v.instance]
                 ELSE parsed

\* re.search(pattern, error_text): the first part the pattern matches, 0
\* when there is none
re_search(pattern, error_text) ==
    Walk({k \in 1..Len(error_text.parts) :
            /\ error_text.parts[k].kind = pattern
            /\ pattern = "grpc_status" => error_text.parts[k].digits # <<>>})

\* int(digits) keeping the last digit only
int_LastDigit(digits) ==
    IF digits = <<>> THEN 0 ELSE digits[Len(digits)]

\* int(digits)
RECURSIVE int(_)
int(digits) ==
    IF digits = <<>> THEN 0
    ELSE 10 * int(SubSeq(digits, 1, Len(digits) - 1)) + digits[Len(digits)]

\* the part of the text that holds the message: the first pattern is tried
\* on the whole text before the second
message_match(error_text) ==
    IF re_search("with message", error_text) # 0
    THEN re_search("with message", error_text)
    ELSE re_search("grpc_message", error_text)

\* error_text if len(error_text) < 500 else error_text[:500] + "..."
Body(error_text) ==
    IF error_text.len < BodyLimit
    THEN [text |-> error_text, chars |-> error_text.len, ellipsis |-> FALSE]
    ELSE [text |-> error_text, chars |-> BodyLimit, ellipsis |-> TRUE]

\* the record parse_grpc_error builds from a RuntimeError's text
GrpcRecord(error_text) ==
    LET user_message == Strip(error_text.parts[message_match(error_text)].msg)
        status_match == re_search("grpc_status", error_text)
        grpc_status == IF status_match # 0
                       THEN int(error_text.parts[status_match].digits)
                       ELSE -1
        mapped == IF grpc_status \in DOMAIN grpc_to_http
                  THEN grpc_to_http[grpc_status]
                  ELSE <<500, "Server Error">>
    IN  ParsedError(I(mapped[1]), S(<<mapped[2]>>), S(user_message),
                    NoneValue, Body(error_text))

parse_grpc_error(exception) ==
    LET i == Walk({k \in 1..Len(exception) :
                     /\ isinstance(exception[k], "RuntimeError")
                     /\ message_match(exception[k].text) # 0})
    IN  IF i = 0 THEN None ELSE GrpcRecord(exception[i].text)

\* parse_exception trying the gRPC pattern before the ApiException
parse_exception_GrpcFirst(exception) ==
    IF parse_grpc_error(exception) # None
    THEN parse_grpc_error(exception)
    ELSE parse_api_exception(exception)

parse_exception(exception) ==
    IF parse_api_exception(exception) # None
    THEN parse_api_exception(exception)
    ELSE parse_grpc_error(exception)

\* format_error_message(parsed_error, verbose): the renderer it hands the
\* record to
format_error_message(parsed_error, verbose) ==
    [fn |-> IF verbose THEN "_format_verbose_error" ELSE "_format_clean_error",
     error |-> parsed_error]

Exit(code) == [type |-> "Exit", code |-> code]

\* wrapper of handle_errors around a command that raised the chain, or
\* returned when the chain is empty: what it prints and what it raises
handle_errors(raised, verbose) ==
    IF raised = <<>>
    THEN [printed |-> <<>>, raised |-> NoCause]
    ELSE LET e == raised[1]
         IN  CASE isinstance(e, "AxError") ->
                    [printed |->
                        <<[fn |-> "error",
                           message |->
                              IF parse_exception(raised) # None
                              THEN format_error_message(
                                       parse_exception(raised), verbose)
                              ELSE [fn |-> "str", error |-> e.text]]>>,
                     raised |-> Exit(exit_code[e.cls])]
               [] isinstance(e, "Exit") ->
                    [printed |-> <<>>, raised |-> Exit(e.exit_code)]
               [] isinstance(e, "KeyboardInterrupt") ->
                    [printed |->
                        <<[fn |-> "new_line"],
                          [fn |-> "warning",
                           message |->
                              [fn |-> "literal",
                               error |-> "Operation cancelled by user"]]>>,
                     raised |-> Exit(130)]
               [] OTHER ->
                    [printed |->
                        IF verbose THEN <<[fn |-> "print_exception"]>>
                        ELSE <<[fn |-> "print",
                                message |-> [fn |-> "Unexpected error",
                                             error |-> e.text]],
                               [fn |-> "print",
                                message |->
                                   [fn |-> "literal",
                                    error |->
                                       "Run with --verbose for more details"]]>>,
                     raised |-> Exit(1)]

(***************************************************************************)
(* Error chains to classify and to handle: the error itself is of any      *)
(* class and text, its causes are the errors the SDK and the Flight client *)
(* raise.                                                                  *)
(***************************************************************************)
Text(parts, len) == [parts |-> parts, len |-> len]

Exc(cls, text) == [cls |-> cls, text |-> text]

PlainText == Text(<<[kind |-> "other"]>>, 40)

\* the parts of a text that hold a message
MessageParts ==
    {[kind |-> "with message", msg |-> <<" ", "dataset exists">>],
     [kind |-> "grpc_message", msg |-> <<"not found">>]}

\* the parts grpc_status: of a text, without digits, with the digits of
\* the codes of the table and of codes outside it
StatusParts ==
    {[kind |-> "grpc_status", digits |-> d] :
        d \in {<<>>, <<0, 5>>, <<1, 7>>, <<9, 9>>}
               \cup {<<n>> : n \in 0..9}
               \cup {<<1, n>> : n \in 0..6}}

TextLengths == {60, BodyLimit - 1, BodyLimit, BodyLimit + 1, 2 * BodyLimit}

Texts ==
    {PlainText}
    \cup {Text(<<s>>, 60) : s \in StatusParts}
    \cup {Text(<<m>>, len) : m \in MessageParts, len \in TextLengths}
    \cup {Text(<<m, s>>, 60) :
             m \in {[kind |-> "grpc_message", msg |-> <<"not found">>]},
             s \in StatusParts}
    \cup {Text(<<m, s>>, 60) :
             m \in {[kind |-> "with message",
                     msg |-> <<" ", "dataset exists">>]},
             s \in {[kind |-> "grpc_status", digits |-> d] :
                      d \in {<<3>>, <<1, 6>>}}}
    \cup {Text(<<s, m, t>>, 2 * BodyLimit) :
             s \in {[kind |-> "grpc_status", digits |-> <<>>]},
             m \in MessageParts,
             t \in {[kind |-> "grpc_status", digits |-> <<5>>]}}
    \cup {Text(<<m, n>>, 60) : m \in MessageParts, n \in MessageParts}

ApiExceptions ==
    {[cls |-> "ApiException", text |-> PlainText, status |-> 404,
      reason |-> <<"Not Found">>, headers |-> NoneValue,
      body |-> NoneValue, data |-> NoneValue],
     [cls |-> "ApiException", text |-> PlainText, status |-> 409,
      reason |-> <<"Conflict">>,
      headers |-> D([k \in {<<"x-request-id">>} |-> S(<<"r1">>)]),
      body |-> S(<<"{}">>),
      data |-> [t |-> "Problem",
                v |-> [title |-> S(<<"Conflict">>),
                       detail |-> S(<<"dataset exists">>),
                       type |-> NoneValue, instance |-> NoneValue]]]}

\* what a command can raise
Errors ==
    {Exc(cls, PlainText) :
        cls \in DOMAIN exit_code \cup {"KeyboardInterrupt", "ValueError"}}
    \cup {[cls |-> "Exit", text |-> PlainText, exit_code |-> code] :
             code \in {0, 1, 2}}
    \cup {Exc("RuntimeError", text) : text \in Texts}
    \cup ApiExceptions

\* what the errors of a command are raised from
Causes ==
    {Exc("ValueError", PlainText)}
    \cup {Exc("RuntimeError", text) :
             text \in {Text(<<[kind |-> "grpc_status", digits |-> <<5>>]>>, 60),
                       Text(<<[kind |-> "grpc_message",
                               msg |-> <<"not found">>]>>, 60),
                       Text(<<[kind |-> "with message",
                               msg |-> <<" ", "dataset exists">>],
                              [kind |-> "grpc_status", digits |-> <<6>>]>>,
                            BodyLimit)}}
    \cup ApiExceptions

Chains(max) ==
    {<<>>} \cup
    UNION {{<<e>> \o causes : e \in Errors, causes \in [1..n -> Causes]} :
              n \in 0..(max - 1)}

InitErrors ==
    /\ EmptyStore
    /\ last = Call("none", <<>>, NoArgs, None)
    /\ input \in [kind : {"error"}, chain : Chains(MaxChain),
                   verbose : BOOLEAN]

\* a call of parse_exception(exception)
ParseExceptionCall ==
    /\ input.kind = "error"
    /\ input.chain # <<>>
    /\ last' = Call("parse_exception", <<>>, [exception |-> input.chain],
                    parse_exception(input.chain))
    /\ UNCHANGED <<dirs, files, marker, input>>

\* a run of a command under handle_errors that raises the chain, with or
\* without --verbose on the command line
HandleErrorsCall ==
    /\ input.kind = "error"
    /\ last' = Call("handle_errors", <<>>,
                    [raised |-> input.chain, verbose |-> input.verbose],
                    handle_errors(input.chain, input.verbose))
    /\ UNCHANGED <<dirs, files, marker, input>>

NextErrors == ParseExceptionCall \/ HandleErrorsCall

SpecErrors == InitErrors /\ [][NextErrors]_vars

(***************************************************************************)
(* Region values: given to RoutingConfig, and stored in the default        *)
(* profile's file and loaded from it under an environment.                 *)
(***************************************************************************)
RegionValues ==
    {<<>>, <<"us-east-1b">>, <<"eu-west-1a">>, <<"INVALID">>,
     <<" ", "us-east-1b">>, Ref("REGION"),
     <<"$", "{", "REGION", ":", "us-east-1b", "}">>,
     <<"$", "{", "REGION", ":", "}">>, <<"$", "{", "REGION">>,
     <<"REGION", "}">>, <<"$", "{", "}">>}

RegionEnvironments ==
    {<<>>} \cup
    [{<<"REGION">>} ->
        {<<>>, <<"us-east-1b">>, <<"INVALID">>, Ref("OTHER_REGION")}]

\* the document of a profile with the region
RegionFile(region) ==
    [kind |-> "toml",
     data |-> D([auth |-> D([api_key |-> S(<<"ak-test123">>)]),
                 routing |-> D([region |-> S(region)])])]

InitRegion ==
    /\ dirs = {"CONFIG_DIR", "PROFILES_DIR"}
    /\ marker = [kind |-> "missing"]
    /\ last = Call("none", <<>>, NoArgs, None)
    /\ \E region \in RegionValues, environ \in RegionEnvironments :
          /\ files = [p \in {DEFAULT_CONFIG_FILE} |-> RegionFile(region)]
          /\ input = [kind |-> "RoutingConfig",
                      kwargs |-> [region |-> S(region)],
                      environ |-> environ]

\* a call of load("default", expand_env_vars) under the environment
RegionLoadCall ==
    \E expand_env_vars \in BOOLEAN :
        /\ input.kind = "RoutingConfig"
        /\ last' = Call("load", <<"default">>,
                        [expand_env_vars |-> expand_env_vars,
                         environ |-> input.environ],
                        load(<<"default">>, expand_env_vars, input.environ))
        /\ UNCHANGED <<dirs, files, marker, input>>

NextRegion == RoutingConfigCall \/ RegionLoadCall

SpecRegion == InitRegion /\ [][NextRegion]_vars

(***************************************************************************)
(* _expand_config_dict on a mapping in the order of its items: a dict is   *)
(* the sequence of its items [key, value] as data.items() gives them, and  *)
(* the loop stops at the first value whose expansion raises.               *)
(***************************************************************************)
Items(items) == [t |-> "dict", items |-> items]

\* the loop of _expand_config_dict leaving nested dicts as they are
RECURSIVE _expand_config_dict_items_Shallow(_, _)
_expand_config_dict_items_Shallow(items, environ) ==
    IF items = <<>> THEN Ok(Items(<<>>))
    ELSE IF items[1].value.t = "str"
              /\ ~_expand_env_var(items[1].value, environ).ok
    THEN _expand_env_var(items[1].value, environ)
    ELSE IF ~_expand_config_dict_items_Shallow(Tail(items), environ).ok
    THEN _expand_config_dict_items_Shallow(Tail(items), environ)
    ELSE Ok(Items(
            <<[key |-> items[1].key,
               value |-> IF items[1].value.t = "str"
                         THEN _expand_env_var(items[1].value, environ).v
                         ELSE items[1].value]>>
            \o _expand_config_dict_items_Shallow(Tail(items), environ).v.items))

\* result[key] = ... for the first item
ExpandItem(value, nested, environ) ==
    IF value.t = "dict" THEN nested
    ELSE IF value.t = "str" THEN _expand_env_var(value, environ)
    ELSE Ok(value)

\* result[key] put before the items the rest of the loop adds
AddItem(key, r, rest) ==
    IF ~r.ok THEN r
    ELSE IF ~rest.ok THEN rest
    ELSE Ok(Items(<<[key |-> key, value |-> r.v]>> \o rest.v.items))

RECURSIVE _expand_config_dict_items(_, _)
_expand_config_dict_items(items, environ) ==
    IF items = <<>> THEN Ok(Items(<<>>))
    ELSE AddItem(items[1].key,
                 ExpandItem(items[1].value,
                            IF items[1].value.t = "dict"
                            THEN _expand_config_dict_items(
                                     items[1].value.items, environ)
                            ELSE Ok(items[1].value),
                            environ),
                 _expand_config_dict_items(Tail(items), environ))

\* the mapping of a dict given by its items
RECURSIVE ToDict(_)
ToDict(value) ==
    IF value.t # "dict" THEN value
    ELSE D([key \in {value.items[i].key : i \in 1..Len(value.items)} |->
              ToDict(value.items[CHOOSE i \in 1..Len(value.items) :
                                    value.items[i].key = key].value)])

\* the orders in which the items of a mapping and of its nested mappings
\* can stand
RECURSIVE Orderings(_)
Orderings(value) ==
    IF value.t # "dict" THEN {value}
    ELSE LET keys == DOMAIN value.v
             n == Cardinality(keys)
         IN  {Items([i \in 1..n |-> [key |-> p[i], value |-> c[p[i]]]]) :
                p \in {q \in [1..n -> keys] :
                         \A i, j \in 1..n : q[i] = q[j] => i = j},
                c \in {d \in [keys -> UNION {Orderings(value.v[k]) :
                                               k \in keys}] :
                         \A k \in keys : d[k] \in Orderings(value.v[k])}}

\* the mappings of the tests, with references to set and unset variables
ExpandMappings ==
    {D([auth |-> D([api_key |-> S(k)]),
        routing |-> D([region |-> S(r), single_host |-> S(h)]),
        transport |-> D([stream_max_workers |-> w,
                         cache_enabled |-> B(TRUE)])]) :
        k \in {Ref("API_KEY"), Ref("UNSET_A"), <<"ak-test123">>},
        r \in {Ref("REGION"), Ref("UNSET_B"),
               <<"$", "{", "UNSET_B", ":", "fallback", "}">>},
        h \in {<<>>, Ref("UNSET_A")},
        w \in {I(8), S(Ref("WORKERS"))}}
    \cup {D([output |-> D([format |-> S(<<"table">>)]),
             name |-> S(n)]) : n \in {Ref("API_KEY"), Ref("UNSET_A")}}
    \cup {EmptyDict}

InitExpandDict ==
    /\ EmptyStore
    /\ last = Call("none", <<>>, NoArgs, None)
    /\ \E data \in ExpandMappings :
          input \in [kind : {"_expand_config_dict"}, data : Orderings(data),
                     environ : {<<>>,
                                [n \in {<<"API_KEY">>, <<"REGION">>,
                                        <<"WORKERS">>} |->
                                    IF n = <<"API_KEY">> THEN <<"ak-from-env">>
                                    ELSE IF n = <<"REGION">> THEN <<"US">>
                                    ELSE <<"8">>]}]

\* a call of _expand_config_dict(data) under an environment
ExpandConfigDictCall ==
    /\ input.kind = "_expand_config_dict"
    /\ last' = Call("_expand_config_dict", <<>>,
                    [data |-> input.data, environ |-> input.environ],
                    _expand_config_dict_items(input.data.items, input.environ))
    /\ UNCHANGED <<dirs, files, marker, input>>

NextExpandDict == ExpandConfigDictCall

SpecExpandDict == InitExpandDict /\ [][NextExpandDict]_vars

(***************************************************************************)
(* Clean-mode rendering of a classified error (_format_clean_error): the   *)
(* text returned is the sequence of its lines, joined by "\n".             *)
(***************************************************************************)
\* bool(v) of an optional int or str
IsTruthy(v) ==
    /\ v.t # "none"
    /\ v.t = "str" => v.v # <<>>
    /\ v.t = "int" => v.v # 0

get_error_suggestion(status) ==
    CASE status = 400 -> "Check your input parameters and try again."
      [] status = 401 -> "Authentication failed. Run 'ax config init' to configure credentials."
      [] status = 403 -> "You don't have permission. Check your API key or space access."
      [] status = 404 -> "Resource not found. Verify the ID exists using the list command."
      [] status = 409 -> "Resource already exists. Choose a different name or use the list command."
      [] status = 422 -> "Validation failed. Check the error details for specific field issues."
      [] status = 429 -> "Rate limit exceeded. Wait a moment and try again."
      [] status = 500 -> "Server error. Try again later or contact support if the issue persists."
      [] status = 502 -> "Bad gateway. The server is temporarily unavailable. Try again later."
      [] status = 503 -> "Service unavailable. The server is temporarily down. Try again later."
      [] status = 504 -> "Gateway timeout. The server took too long to respond. Try again later."
      [] OTHER -> ""

\* status_line_parts: f"{error.status} {error.reason}", then the detail or
\* the title
status_line_parts(error) ==
    (IF IsTruthy(error.status) /\ IsTruthy(error.reason)
     THEN <<[status |-> error.status.v, reason |-> error.reason.v]>>
     ELSE <<>>)
    \o (IF IsTruthy(error.detail) THEN <<[text |-> error.detail.v]>>
        ELSE IF IsTruthy(error.title) THEN <<[text |-> error.title.v]>>
        ELSE <<>>)

\* _format_clean_error without the title as the second choice
_format_clean_error_DetailOnly(error) ==
    LET parts ==
            (IF IsTruthy(error.status) /\ IsTruthy(error.reason)
             THEN <<[status |-> error.status.v, reason |-> error.reason.v]>>
             ELSE <<>>)
            \o (IF IsTruthy(error.detail) THEN <<[text |-> error.detail.v]>>
                ELSE <<>>)
        status == IF IsTruthy(error.status) THEN error.status.v ELSE 0
    IN  (IF parts # <<>> THEN <<[line |-> "summary", joined |-> parts]>>
         ELSE <<>>)
        \o (IF get_error_suggestion(status) # ""
            THEN <<[line |-> ""],
                   [line |-> "suggestion",
                    text |-> get_error_suggestion(status)]>>
            ELSE <<>>)
        \o <<[line |-> "Run with --verbose for technical details."]>>

_format_clean_error(error) ==
    LET status == IF IsTruthy(error.status) THEN error.status.v ELSE 0
    IN  (IF status_line_parts(error) # <<>>
         THEN <<[line |-> "summary", joined |-> status_line_parts(error)]>>
         ELSE <<>>)
        \o (IF get_error_suggestion(status) # ""
            THEN <<[line |-> ""],
                   [line |-> "suggestion",
                    text |-> get_error_suggestion(status)]>>
            ELSE <<>>)
        \o <<[line |-> "Run with --verbose for technical details."]>>

\* the records to render: each field absent, empty, or given
FormatErrors ==
    {[ParsedError(status, reason, detail, NoneValue, NoneValue)
         EXCEPT !.title = title] :
        status \in {NoneValue}
                   \cup {I(n) : n \in {0, 200, 400, 401, 403, 404, 409, 412,
                                       418, 422, 429, 499, 500, 501, 502, 503,
                                       504}},
        reason \in {NoneValue, S(<<>>), S(<<"Not Found">>)},
        detail \in {NoneValue, S(<<>>), S(<<"dataset missing">>)},
        title \in {NoneValue, S(<<"Resource Not Found">>)}}

InitFormat ==
    /\ EmptyStore
    /\ last = Call("none", <<>>, NoArgs, None)
    /\ input \in [kind : {"format"}, error : FormatErrors]

\* a call of format_error_message(parsed_error, verbose=False)
FormatCleanCall ==
    /\ input.kind = "format"
    /\ last' = Call("_format_clean_error", <<>>, [error |-> input.error],
                    _format_clean_error(input.error))
    /\ UNCHANGED <<dirs, files, marker, input>>

NextFormat == FormatCleanCall

SpecFormat == InitFormat /\ [][NextFormat]_vars

(***************************************************************************)
(* Output rendering (ax/core/output.py, ax/core/pydantic.py,               *)
(* ax/utils/file_io.py).  A result is the mapping model_dump() gives for   *)
(* it, its keys sequences of name parts, so that "num_" + name is a key    *)
(* as any other; a path is the sequence of its name and suffixes.  A call  *)
(* gives what it raised, printed and wrote; whether a file can be written  *)
(* is the environment's choice.                                            *)
(***************************************************************************)
L(items) == [t |-> "list", v |-> items]

\* str.lower() on the format names, suffixes and words of the model
lower(s) ==
    CASE s = "TABLE" -> "table"
      [] s = "Json" -> "json"
      [] s = ".CSV" -> ".csv"
      [] s = ".JSONL" -> ".jsonl"
      [] s \in {"TRUE", "True"} -> "true"
      [] s \in {"FALSE", "False"} -> "false"
      [] s = "Yes" -> "yes"
      [] s = "ON" -> "on"
      [] s = "No" -> "no"
      [] s = "OFF" -> "off"
      [] OTHER -> s

is_list_of_structured_data(value) ==
    IF value.t # "list" \/ Len(value.v) = 0 THEN FALSE
    ELSE value.v[1].t = "dict" /\ DOMAIN value.v[1].v # {}

\* categorize_basemodel_fields: the names of list_fields
list_fields(model) ==
    {field_name \in DOMAIN model : is_list_of_structured_data(model[field_name])}

flatten_basemodel_for_export(model) ==
    [key \in (DOMAIN model \ list_fields(model))
             \cup {<<"num_">> \o f : f \in list_fields(model)} |->
        IF \E f \in list_fields(model) : key = <<"num_">> \o f
        THEN I(Len(model[CHOOSE f \in list_fields(model) :
                            key = <<"num_">> \o f].v))
        ELSE model[key]]

is_list_response_model(model) == <<"pagination">> \in DOMAIN model

\* OutputFormatter._to_dataframe: the rows of the frame
_to_dataframe(data) ==
    IF is_list_response_model(data) THEN data[<<"items">>].v
    ELSE <<D(flatten_basemodel_for_export(data))>>

Formats == <<"table", "json", "csv", "parquet">>

get_formatter(format_type) ==
    IF \E i \in 1..Len(Formats) : Formats[i] = lower(format_type)
    THEN Ok(lower(format_type))
    ELSE Fail([type |-> "ValueError", msg |-> "Unsupported format",
               supported |-> Formats])

Effects(raised, printed, written) ==
    [raised |-> raised, printed |-> printed, written |-> written]

\* the write of a formatter to output_file, wrapped in try/except
WriteOutput(formatter, content, output_file, writable) ==
    IF writable
    THEN Effects(NoCause, <<>>,
                 <<[file |-> output_file, format |-> formatter,
                    content |-> content]>>)
    ELSE Effects([type |-> "FileIOError", msg |-> "Failed to write file"],
                 <<>>, <<>>)

\* TableFormatter.format with a file given
format_TableToFile(formatter, data, output_file, writable) ==
    CASE formatter = "table" ->
            IF output_file # <<>>
            THEN WriteOutput(formatter, data, output_file, writable)
            ELSE Effects(NoCause, <<[format |-> "table", content |-> data]>>,
                         <<>>)
      [] formatter = "json" ->
            IF output_file # <<>>
            THEN WriteOutput(formatter, data, output_file, writable)
            ELSE Effects(NoCause, <<[format |-> "json", content |-> data]>>,
                         <<>>)
      [] formatter = "csv" ->
            IF output_file # <<>>
            THEN WriteOutput(formatter, _to_dataframe(data), output_file,
                             writable)
            ELSE Effects(NoCause,
                         <<[format |-> "csv",
                            content |-> _to_dataframe(data)]>>, <<>>)
      [] formatter = "parquet" ->
            IF output_file = <<>>
            THEN Effects([type |-> "FileIOError",
                          msg |-> "Parquet format requires an output file"],
                         <<>>, <<>>)
            ELSE WriteOutput(formatter, _to_dataframe(data), output_file,
                             writable)

\* the format methods of TableFormatter, JSONFormatter, CSVFormatter and
\* ParquetFormatter
format(formatter, data, output_file, writable) ==
    CASE formatter = "table" ->
            IF output_file # <<>>
            THEN Effects([type |-> "FileIOError",
                          msg |-> "Table format can only be output to terminal"],
                         <<>>, <<>>)
            ELSE Effects(NoCause, <<[format |-> "table", content |-> data]>>,
                         <<>>)
      [] formatter = "json" ->
            IF output_file # <<>>
            THEN WriteOutput(formatter, data, output_file, writable)
            ELSE Effects(NoCause, <<[format |-> "json", content |-> data]>>,
                         <<>>)
      [] formatter = "csv" ->
            IF output_file # <<>>
            THEN WriteOutput(formatter, _to_dataframe(data), output_file,
                             writable)
            ELSE Effects(NoCause,
                         <<[format |-> "csv",
                            content |-> _to_dataframe(data)]>>, <<>>)
      [] formatter = "parquet" ->
            IF output_file = <<>>
            THEN Effects([type |-> "FileIOError",
                          msg |-> "Parquet format requires an output file"],
                         <<>>, <<>>)
            ELSE WriteOutput(formatter, _to_dataframe(data), output_file,
                             writable)

output_data(data, format_type, output_file, writable) ==
    IF ~get_formatter(format_type).ok
    THEN Effects(get_formatter(format_type).err, <<>>, <<>>)
    ELSE format(get_formatter(format_type).v, data, output_file, writable)

\* Path(path).suffix.lower(): a name that starts with a dot has no suffix
Suffix(path) ==
    IF Len(path) > 1 THEN lower(path[Len(path)]) ELSE ""

_detect_format(path) ==
    CASE Suffix(path) = ".csv" -> Ok("csv")
      [] Suffix(path) = ".json" -> Ok("json")
      [] Suffix(path) = ".jsonl" -> Ok("jsonl")
      [] Suffix(path) \in {".parquet", ".pq"} -> Ok("parquet")
      [] OTHER -> Fail([type |-> "FileIOError",
                        msg |-> "Cannot detect format from extension"])

\* parse_output_option: the pair (format, file_path) or the FileIOError
parse_output_option(output) ==
    IF output \in {<<"table">>, <<"json">>, <<"csv">>, <<"parquet">>}
    THEN Ok(<<output[1], <<>>>>)
    ELSE IF ~_detect_format(output).ok
    THEN Fail([type |-> "FileIOError", msg |-> "Invalid output option"])
    ELSE Ok(<<_detect_format(output).v, output>>)

(***************************************************************************)
(* Results to render, format names, destination files and values of        *)
(* --output.                                                               *)
(***************************************************************************)
\* the fields a single-object result may hold besides its id: a list of
\* objects, a list of strings, an empty list, a list that starts with an
\* empty object, and a count of its own
ExtraFields ==
    [f \in {<<"versions">>, <<"tags">>, <<"examples">>, <<"links">>,
            <<"num_", "versions">>} |->
        CASE f = <<"versions">> ->
                L(<<D([id |-> S(<<"v1">>)]), D([id |-> S(<<"v2">>)])>>)
          [] f = <<"tags">> -> L(<<S(<<"a">>), S(<<"b">>)>>)
          [] f = <<"examples">> -> L(<<>>)
          [] f = <<"links">> -> L(<<EmptyDict, D([id |-> S(<<"l2">>)])>>)
          [] f = <<"num_", "versions">> -> I(7)]

Results ==
    {[f \in {<<"id">>} \cup extra |->
         IF f = <<"id">> THEN S(<<"ds1">>) ELSE ExtraFields[f]] :
        extra \in {e \in SUBSET DOMAIN ExtraFields : Cardinality(e) <= 2}}
    \cup {[f \in {<<"items">>, <<"pagination">>} |->
             IF f = <<"items">> THEN L(items)
             ELSE D([has_more |-> B(FALSE)])] :
            items \in {<<>>, <<D([id |-> S(<<"ds1">>)])>>}}

FormatNames ==
    {"table", "json", "csv", "parquet", "TABLE", "Json", "jsonl", "xml", ""}

OutputFiles == {<<>>, <<"data", ".csv">>, <<"out", ".txt">>}

OutputOptions ==
    {<<"table">>, <<"json">>, <<"csv">>, <<"parquet">>, <<"TABLE">>,
     <<"jsonl">>, <<"data">>, <<".csv">>, <<"data", ".csv">>,
     <<"data", ".json">>, <<"data", ".jsonl">>, <<"data", ".JSONL">>,
     <<"data", ".parquet">>, <<"data", ".pq">>, <<"data", ".txt">>,
     <<"archive", ".tar", ".CSV">>}

InitOutput ==
    /\ EmptyStore
    /\ last = Call("none", <<>>, NoArgs, None)
    /\ input \in [kind : {"output_data"}, data : Results,
                   format_type : FormatNames, output_file : OutputFiles,
                   writable : BOOLEAN]
                  \cup [kind : {"output"}, data : Results,
                        output : OutputOptions, writable : {TRUE}]

\* a call of output_data(data, format_type, output_file)
OutputDataCall ==
    /\ input.kind = "output_data"
    /\ last' = Call("output_data", <<>>, NoArgs,
                    output_data(input.data, input.format_type,
                                input.output_file, input.writable))
    /\ UNCHANGED <<dirs, files, marker, input>>

\* a command run with --output: parse_output_option(output), and
\* output_data with the pair it returns
OutputOptionCall ==
    /\ input.kind = "output"
    /\ last' = Call("parse_output_option", <<>>, NoArgs,
                    IF parse_output_option(input.output).ok
                    THEN [parsed |-> parse_output_option(input.output),
                          effects |->
                             output_data(input.data,
                                         parse_output_option(input.output).v[1],
                                         parse_output_option(input.output).v[2],
                                         input.writable)]
                    ELSE [parsed |-> parse_output_option(input.output),
                          effects |->
                             Effects(parse_output_option(input.output).err,
                                     <<>>, <<>>)])
    /\ UNCHANGED <<dirs, files, marker, input>>

\* a call of flatten_basemodel_for_export(model) on a single-object result
FlattenCall ==
    /\ ~is_list_response_model(input.data)
    /\ last' = Call("flatten_basemodel_for_export", <<>>, NoArgs,
                    flatten_basemodel_for_export(input.data))
    /\ UNCHANGED <<dirs, files, marker, input>>

NextOutput == OutputDataCall \/ OutputOptionCall \/ FlattenCall

SpecOutput == InitOutput /\ [][NextOutput]_vars

(***************************************************************************)
(* Configuration from detected environment variables (ax/config/setup.py). *)
(* The one prompt left in this path, read_output_format(), is an input of  *)
(* the call: the format selected, or None when the prompt is cancelled.    *)
(***************************************************************************)
ENV_VAR_MAPPING ==
    [api_key |-> "ARIZE_API_KEY",
     region |-> "ARIZE_REGION",
     single_host |-> "ARIZE_SINGLE_HOST",
     single_port |-> "ARIZE_SINGLE_PORT",
     base_domain |-> "ARIZE_BASE_DOMAIN",
     api_host |-> "ARIZE_API_HOST",
     api_scheme |-> "ARIZE_API_SCHEME",
     otlp_host |-> "ARIZE_OTLP_HOST",
     otlp_scheme |-> "ARIZE_OTLP_SCHEME",
     flight_host |-> "ARIZE_FLIGHT_HOST",
     flight_port |-> "ARIZE_FLIGHT_PORT",
     flight_scheme |-> "ARIZE_FLIGHT_SCHEME",
     stream_max_workers |-> "ARIZE_STREAM_MAX_WORKERS",
     stream_max_queue_bound |-> "ARIZE_STREAM_MAX_QUEUE_BOUND",
     pyarrow_max_chunksize |-> "ARIZE_MAX_CHUNKSIZE",
     max_http_payload_size_mb |-> "ARIZE_MAX_HTTP_PAYLOAD_SIZE_MB",
     request_verify |-> "ARIZE_REQUEST_VERIFY"]

\* detect_env_vars() in the environment environ
detect_env_vars(environ) ==
    [field \in {f \in DOMAIN ENV_VAR_MAPPING :
                   <<ENV_VAR_MAPPING[f]>> \in DOMAIN environ} |->
        ENV_VAR_MAPPING[field]]

\* env_ref inside create_config_from_env_vars
env_ref(env_var_name) == Ref(env_var_name)

\* the keyword arguments create_config_from_env_vars builds for a section
SectionKwargs(section, env_vars) ==
    [field \in FieldNames(section) \cap DOMAIN env_vars |->
        S(env_ref(env_vars[field]))]

\* create_config_from_env_vars storing the values of nothing but api_key
create_config_from_env_vars_AuthOnly(profile, env_vars, selected) ==
    IF "api_key" \notin DOMAIN env_vars
    THEN Fail([type |-> "ValueError",
               msg |-> "api_key must be present in detected env vars"])
    ELSE LET auth_config == AuthConfig(SectionKwargs("auth", env_vars))
             output_config == ModelClass("output", [format |-> selected])
         IN  IF ~auth_config.ok
             THEN Fail([type |-> "ValidationError", msg |-> auth_config.err])
             ELSE IF ~output_config.ok
             THEN Fail([type |-> "ValidationError",
                        msg |-> output_config.err])
             ELSE Config([profile |-> D([name |-> S(profile)]),
                          auth |-> D(auth_config.v),
                          output |-> D(output_config.v)])

\* create_config_from_env_vars(profile, env_vars), read_output_format()
\* returning selected
create_config_from_env_vars(profile, env_vars, selected) ==
    IF "api_key" \notin DOMAIN env_vars
    THEN Fail([type |-> "ValueError",
               msg |-> "api_key must be present in detected env vars"])
    ELSE LET auth_config == AuthConfig(SectionKwargs("auth", env_vars))
             routing_config ==
                 RoutingConfig(SectionKwargs("routing", env_vars))
             transport_config ==
                 ModelClass("transport", SectionKwargs("transport", env_vars))
             security_config ==
                 ModelClass("security", SectionKwargs("security", env_vars))
             output_config == ModelClass("output", [format |-> selected])
         IN  IF ~auth_config.ok
             THEN Fail([type |-> "ValidationError", msg |-> auth_config.err])
             ELSE IF ~routing_config.ok
             THEN Fail([type |-> "ValidationError",
                        msg |-> routing_config.err])
             ELSE IF ~transport_config.ok
             THEN Fail([type |-> "ValidationError",
                        msg |-> transport_config.err])
             ELSE IF ~security_config.ok
             THEN Fail([type |-> "ValidationError",
                        msg |-> security_config.err])
             ELSE IF ~output_config.ok
             THEN Fail([type |-> "ValidationError",
                        msg |-> output_config.err])
             ELSE Config([profile |-> D([name |-> S(profile)]),
                          auth |-> D(auth_config.v),
                          routing |-> D(routing_config.v),
                          transport |-> D(transport_config.v),
                          security |-> D(security_config.v),
                          storage |-> D(ModelClass("storage", <<>>).v),
                          output |-> D(output_config.v)])

\* the variables set in the environments of the runs, one of them not of
\* the mapping
SetupVariables ==
    {"ARIZE_API_KEY", "ARIZE_REGION", "ARIZE_SINGLE_HOST",
     "ARIZE_SINGLE_PORT", "ARIZE_BASE_DOMAIN", "ARIZE_API_HOST",
     "ARIZE_STREAM_MAX_WORKERS", "ARIZE_REQUEST_VERIFY", "ARIZE_SPACE_ID"}

\* environments: variables set to a value, or all set to the empty string
SetupEnvironments ==
    {[name \in {<<variable>> : variable \in present} |-> value] :
        present \in SUBSET SetupVariables, value \in {<<"v">>, <<>>}}

\* what read_output_format() returns
SelectedFormats == {S(<<"table">>), S(<<"json">>), NoneValue}

InitSetup ==
    /\ EmptyStore
    /\ last = Call("none", <<>>, NoArgs, None)
    /\ input \in [kind : {"setup"}, profile : {<<"default">>, <<"dev">>},
                  environ : SetupEnvironments, selected : SelectedFormats]

\* a call of detect_env_vars()
DetectEnvVarsCall ==
    /\ last' = Call("detect_env_vars", <<>>, NoArgs,
                    detect_env_vars(input.environ))
    /\ UNCHANGED <<dirs, files, marker, input>>

\* a call of create_config_from_env_vars(profile, detect_env_vars())
CreateConfigFromEnvVarsCall ==
    /\ last' = Call("create_config_from_env_vars", input.profile, NoArgs,
                    create_config_from_env_vars(
                        input.profile, detect_env_vars(input.environ),
                        input.selected))
    /\ UNCHANGED <<dirs, files, marker, input>>

NextSetup == DetectEnvVarsCall \/ CreateConfigFromEnvVarsCall

SpecSetup == InitSetup /\ [][NextSetup]_vars

(***************************************************************************)
(* The configuration handed to the API client (Config.to_sdk_config in     *)
(* ax/config/schema.py) and the coercion helpers of ax/config/manager.py.  *)
(* A numeral is a string of digit characters; the default flight port is   *)
(* the one numeral held as a single piece.                                 *)
(***************************************************************************)
DigitChars == <<"0", "1", "2", "3", "4", "5", "6", "7", "8", "9">>

\* the digits of a piece of a string, <<-1>> for a piece that is no numeral
DigitsOf(piece) ==
    IF piece = "443" THEN <<4, 4, 3>>
    ELSE IF \E d \in 1..10 : DigitChars[d] = piece
    THEN <<(CHOOSE d \in 1..10 : DigitChars[d] = piece) - 1>>
    ELSE <<-1>>

\* int(value) of a str or an int: surrounding whitespace is ignored, an
\* empty or non-numeric string raises ValueError
int_str(value) ==
    IF value.t = "int" THEN Ok(value.v)
    ELSE LET digits == Concat([i \in 1..Len(Strip(value.v)) |->
                                 DigitsOf(Strip(value.v)[i])])
         IN  IF digits = <<>> \/ \E i \in 1..Len(digits) : digits[i] < 0
             THEN Fail([type |-> "ValueError", msg |-> "invalid literal"])
             ELSE Ok(int(digits))

\* Region(value) of the arize package
Region(value) ==
    IF value \in ValidRegions THEN Ok(value)
    ELSE Fail([type |-> "ValueError", msg |-> "is not a valid Region"])

\* str.lower() of a string of the model
Lower(s) == [i \in 1..Len(s) |-> lower(s[i])]

\* _to_bool of manager.py
_to_bool(value) ==
    IF value.t = "bool" THEN value.v
    ELSE Lower(Strip(value.v)) \in {<<"1">>, <<"true">>, <<"yes">>, <<"on">>}

\* bool(value) of a bool or a str
bool(value) == IF value.t = "bool" THEN value.v ELSE Truthy(value.v)

\* Config.to_sdk_config
to_sdk_config(self) ==
    LET region == IF Truthy(self.routing.region.v)
                  THEN Region(self.routing.region.v) ELSE Ok("UNSET")
        single_port == IF Truthy(self.routing.single_port.v)
                       THEN int_str(self.routing.single_port) ELSE Ok(0)
        flight_port == IF Truthy(self.routing.flight_port.v)
                       THEN int_str(self.routing.flight_port) ELSE Ok(0)
        transport == [f \in FieldNames("transport") |->
                         int_str(self.transport[f])]
    IN  IF ~region.ok THEN region
        ELSE IF ~single_port.ok THEN single_port
        ELSE IF ~flight_port.ok THEN flight_port
        ELSE IF \E f \in FieldNames("transport") : ~transport[f].ok
        THEN transport[CHOOSE f \in FieldNames("transport") :
                          ~transport[f].ok]
        ELSE Ok([api_key |-> self.auth.api_key.v,
                 region |-> region.v,
                 single_host |-> self.routing.single_host.v,
                 single_port |-> single_port.v,
                 base_domain |-> self.routing.base_domain.v,
                 api_host |-> self.routing.api_host.v,
                 api_scheme |-> self.routing.api_scheme.v,
                 otlp_host |-> self.routing.otlp_host.v,
                 otlp_scheme |-> self.routing.otlp_scheme.v,
                 flight_host |-> self.routing.flight_host.v,
                 flight_port |-> flight_port.v,
                 flight_scheme |-> self.routing.flight_scheme.v,
                 stream_max_workers |-> transport.stream_max_workers.v,
                 stream_max_queue_bound |->
                     transport.stream_max_queue_bound.v,
                 pyarrow_max_chunksize |-> transport.pyarrow_max_chunksize.v,
                 max_http_payload_size_mb |->
                     transport.max_http_payload_size_mb.v,
                 request_verify |-> bool(self.security.request_verify)])

\* the values of ARIZE_REQUEST_VERIFY in the environment
RequestVerifyTexts ==
    {<<"true">>, <<"TRUE">>, <<"True">>, <<"1">>, <<"yes">>, <<"Yes">>,
     <<"on">>, <<"ON">>, <<"false">>, <<"FALSE">>, <<"False">>, <<"0">>,
     <<"no">>, <<"No">>, <<"off">>, <<"OFF">>, <<"maybe">>,
     <<" ", "true">>, <<"false", "\n">>}

\* security.request_verify as stored in the profile
StoredRequestVerify ==
    {S(Ref("ARIZE_REQUEST_VERIFY")), S(<<"false">>), B(TRUE), B(FALSE)}

InitSdk ==
    /\ EmptyStore
    /\ last = Call("none", <<>>, NoArgs, None)
    /\ input \in [kind : {"sdk"},
                  request_verify : StoredRequestVerify,
                  text : RequestVerifyTexts,
                  region : {<<>>, <<"us-east-1b">>},
                  single_port : {<<>>, <<"8", "0">>, <<"http">>},
                  stream_max_workers : {I(8), S(<<"1", "6">>)}]

\* the profile's data after the expansion load performs
SdkData ==
    _expand_config_dict(
        D([auth |-> D([api_key |-> S(<<"ak-test123">>)]),
           routing |-> D([region |-> S(input.region),
                          single_port |-> S(input.single_port)]),
           transport |-> D([stream_max_workers |-> input.stream_max_workers]),
           security |-> D([request_verify |-> input.request_verify])]),
        [n \in {<<"ARIZE_REQUEST_VERIFY">>} |-> input.text])

\* a command's config.to_sdk_config() on the configuration it loaded
ToSdkConfigCall ==
    /\ SdkData.ok
    /\ Config(SdkData.v.v).ok
    /\ last' = Call("to_sdk_config", <<>>,
                    [config |-> Config(SdkData.v.v).v],
                    to_sdk_config(Config(SdkData.v.v).v))
    /\ UNCHANGED <<dirs, files, marker, input>>

\* a call of _to_bool on the resolved value
ToBoolCall ==
    /\ SdkData.ok
    /\ last' = Call("_to_bool", <<>>,
                    [value |-> SdkData.v.v.security.v.request_verify],
                    Return("bool",
                           _to_bool(SdkData.v.v.security.v.request_verify)))
    /\ UNCHANGED <<dirs, files, marker, input>>

NextSdk == ToSdkConfigCall \/ ToBoolCall

SpecSdk == InitSdk /\ [][NextSdk]_vars

(***************************************************************************)
(* The commands `ax config init` and `ax config list`                      *)
(* (ax/commands/config.py).  The answers typed at the prompts are inputs   *)
(* of the command: the profile name, the two confirmations, the format     *)
(* selected, and for the interactive path a literal key with the defaults. *)
(***************************************************************************)
\* create_config_interactively(profile) for those answers
create_config_interactively(profile) ==
    Config([profile |-> D([name |-> S(profile)]),
            auth |-> D([api_key |-> S(<<"ak-test123">>)])])

\* the environments `ax config init` runs in
InitEnvironments ==
    {<<>>,
     [n \in {<<"ARIZE_API_KEY">>} |-> <<"ak-from-env">>],
     [n \in {<<"ARIZE_REGION">>} |-> <<"us-east-1b">>]}

\* `ax config init`
init ==
    \E prompt \in (IF list_profiles # <<>> THEN ProfileNames
                   ELSE {<<"default">>}),
       environ \in InitEnvironments,
       answers \in [overwrite : BOOLEAN, use_env_vars : BOOLEAN,
                    selected : SelectedFormats] :
        LET overwrite == answers.overwrite
            use_env_vars == answers.use_env_vars
            selected == answers.selected
        IN
        \* a question that is not asked has one answer
        /\ ~exists(prompt) => overwrite
        /\ DOMAIN detect_env_vars(environ) = {} => ~use_env_vars
        /\ ~use_env_vars => selected = NoneValue
        /\ LET existing_profiles == list_profiles
               profile == IF existing_profiles # <<>> THEN prompt
                          ELSE <<"default">>
               detected_env_vars == detect_env_vars(environ)
               config ==
                   IF DOMAIN detected_env_vars # {} /\ use_env_vars
                   THEN create_config_from_env_vars(profile, detected_env_vars,
                                                    selected)
                   ELSE create_config_interactively(profile)
               args == [existing_profiles |-> existing_profiles,
                        prompted |-> existing_profiles # <<>>]
           IN  /\ IF exists(profile) /\ ~overwrite
                  THEN /\ last' = Call("init", profile, args,
                                       Raise("Exit", "Configuration unchanged",
                                             NoCause))
                       /\ UNCHANGED <<dirs, files, marker>>
                  ELSE IF ~config.ok
                  THEN /\ last' = Call("init", profile, args,
                                       Raise(config.err.type, "", NoCause))
                       /\ UNCHANGED <<dirs, files, marker>>
                  ELSE /\ dirs' = _ensure_dirs
                       /\ files' = WriteFile(_get_config_path(profile),
                                             [kind |-> "toml",
                                              data |-> SavedData(config.v,
                                                                 profile)])
                       /\ IF profile = <<"default">>
                          THEN /\ last' = Call("init", profile, args, None)
                               /\ UNCHANGED marker
                          ELSE IF WriteMarker(profile).ok
                          THEN /\ marker' = WriteMarker(profile).v
                               /\ last' = Call("init", profile, args, None)
                          ELSE /\ last' = Call("init", profile, args,
                                               Raise(WriteMarker(profile).err,
                                                     "", NoCause))
                               /\ UNCHANGED marker
               /\ UNCHANGED input

\* `ax config list`: the rows of the table, or Exit without profiles
ListCommand ==
    /\ last' = Call("list", <<>>, NoArgs,
                    IF list_profiles = <<>>
                    THEN Raise("Exit", "No profiles found", NoCause)
                    ELSE Return("table",
                                [i \in 1..Len(list_profiles) |->
                                    [profile |-> list_profiles[i],
                                     active |-> list_profiles[i]
                                                   = get_active_profile]]))
    /\ UNCHANGED <<dirs, files, marker, input>>

NextInit == init \/ ListCommand \/ set_active_profile

SpecInit == Init /\ [][NextInit]_vars

(***************************************************************************)
(* Two instances of the tool on one store: one runs set_active_profile,    *)
(* the other delete_profile (ax/config/manager.py).  No lock is taken, so  *)
(* each file operation of a call is a step of its own, and the steps of    *)
(* the two calls interleave.  input holds each instance's position and     *)
(* the profile its call was given.                                         *)
(***************************************************************************)
\* the names the two instances are given
RaceNames == {<<"default">>} \cup {ProfilePool[i] : i \in 1..NumProfiles}

Idle == [pc |-> "idle", profile |-> <<>>]

\* the profiles of RaceNames saved, no marker, both instances idle
InitRace ==
    /\ dirs = {"CONFIG_DIR", "PROFILES_DIR"}
    /\ files = [path \in {_get_config_path(n) : n \in RaceNames} |->
                  [kind |-> "toml",
                   data |-> SavedData(LiteralConfig,
                                      CHOOSE n \in RaceNames :
                                          _get_config_path(n) = path)]]
    /\ marker = [kind |-> "missing"]
    /\ last = Call("none", <<>>, NoArgs, None)
    /\ input = [kind |-> "instances", use |-> Idle, delete |-> Idle]

\* set_active_profile, first step: cls.exists(profile)
SetActiveCheck ==
    \E profile \in RaceNames :
        /\ input.use.pc = "idle"
        /\ IF ~exists(profile)
           THEN /\ last' = Call("set_active_profile", profile, NoArgs,
                                Raise("ConfigError", "does not exist",
                                      [type |-> "none",
                                       available |-> list_profiles]))
                /\ UNCHANGED input
           ELSE /\ input' = [input EXCEPT
                                !.use = [pc |-> "write", profile |-> profile]]
                /\ UNCHANGED last
        /\ UNCHANGED <<dirs, files, marker>>

\* set_active_profile, second step: ACTIVE_PROFILE_FILE.write_text(profile)
SetActiveWrite ==
    /\ input.use.pc = "write"
    /\ IF WriteMarker(input.use.profile).ok
       THEN /\ marker' = WriteMarker(input.use.profile).v
            /\ last' = Call("set_active_profile", input.use.profile, NoArgs,
                            None)
       ELSE /\ last' = Call("set_active_profile", input.use.profile, NoArgs,
                            Raise(WriteMarker(input.use.profile).err, "",
                                  NoCause))
            /\ UNCHANGED marker
    /\ input' = [input EXCEPT !.use = Idle]
    /\ UNCHANGED <<dirs, files>>

\* delete_profile, first step: the guards, which read the marker
DeleteCheck ==
    \E profile \in RaceNames :
        /\ input.delete.pc = "idle"
        /\ IF DeleteGuard(profile) # ""
           THEN /\ last' = Call("delete_profile", profile,
                                [unlinked |-> FALSE],
                                Raise("ConfigError", DeleteGuard(profile),
                                      NoCause))
                /\ UNCHANGED input
           ELSE /\ input' = [input EXCEPT
                                !.delete = [pc |-> "unlink",
                                            profile |-> profile]]
                /\ UNCHANGED last
        /\ UNCHANGED <<dirs, files, marker>>

\* delete_profile, second step: config_path.exists() and config_path.unlink()
DeleteUnlink ==
    /\ input.delete.pc = "unlink"
    /\ files' = DeleteFile(input.delete.profile)
    /\ last' = Call("delete_profile", input.delete.profile,
                    [unlinked |-> exists(input.delete.profile)], None)
    /\ input' = [input EXCEPT !.delete = Idle]
    /\ UNCHANGED <<dirs, marker>>

NextRace ==
    \/ SetActiveCheck
    \/ SetActiveWrite
    \/ DeleteCheck
    \/ DeleteUnlink
    \/ LoadCall

SpecRace == InitRace /\ [][NextRace]_vars

(***************************************************************************)
(* The claims.                                                             *)
(***************************************************************************)
Raised(ret, type) == ret.kind = "raise" /\ ret.type = type

\* C1: a call delete_profile(name) with name = "default", or with name the
\* value get_active_profile() has at the call, raises ConfigError and leaves
\* every profile file and the active-profile marker as they were.
C1_DeletionGuards ==
    [][\A name \in ArgNames :
          (/\ last'.op = "delete_profile"
           /\ last'.profile = name
           /\ (name = <<"default">> \/ name = get_active_profile))
          => (/\ Raised(last'.ret, "ConfigError")
              /\ files' = files
              /\ marker' = marker
              /\ dirs' = dirs)]_vars

\* a refused deletion of the active, stored, non-default profile
C1_Witness ==
    /\ last.op = "delete_profile"
    /\ last.profile # <<"default">>
    /\ last.profile = get_active_profile
    /\ exists(last.profile)
    /\ Raised(last.ret, "ConfigError")

\* C2: a call delete_profile(name) with name neither "default" nor the active
\* profile returns without error whether or not the file is there; after it
\* exists(name) is false, name is not in list_profiles(), and every other
\* profile file and the marker are as they were.
C2_DeleteInactive ==
    [][\A name \in ArgNames :
          (/\ last'.op = "delete_profile"
           /\ last'.profile = name
           /\ name # <<"default">>
           /\ name # get_active_profile)
          => (/\ last'.ret = None
              /\ ~exists(name)'
              /\ \A i \in 1..Len(list_profiles') : list_profiles'[i] # name
              /\ \A path \in (DOMAIN files \cup DOMAIN files')
                             \ {_get_config_path(name)} :
                    /\ path \in DOMAIN files
                    /\ path \in DOMAIN files'
                    /\ files'[path] = files[path]
              /\ marker' = marker)]_vars

\* a deletion that removed a file and left another profile file in place
C2_Witness ==
    /\ last.op = "delete_profile"
    /\ last.ret = None
    /\ last.args.unlinked
    /\ ~exists(last.profile)
    /\ \E n \in ProfileNames \ {<<"default">>} : exists(n)

\* C3: set_active_profile(name) raises ConfigError and leaves the marker as it
\* was when no profile file exists for name; when one exists, the marker is
\* overwritten and the next get_active_profile() returns name.
C3_SetActiveProfile ==
    [][\A name \in ArgNames :
          (last'.op = "set_active_profile" /\ last'.profile = name)
          => IF ~exists(name)
             THEN Raised(last'.ret, "ConfigError") /\ marker' = marker
             ELSE /\ last'.ret = None
                  /\ marker' = [kind |-> "file", text |-> name]
                  /\ get_active_profile' = name]_vars

\* C4: get_active_profile() never raises; it returns "default" when the marker
\* is missing, a directory, unreadable or not text, and the content of a
\* readable marker file with the surrounding whitespace removed.
C4_GetActiveProfile ==
    last.op = "get_active_profile"
    => /\ last.ret.kind = "str"
       /\ marker.kind \in {"missing", "dir", "noperm", "binary"}
          => last.ret.v = <<"default">>
       /\ marker.kind = "file"
          => \E pre, post \in 0..Len(marker.text) :
                /\ pre + post <= Len(marker.text)
                /\ last.ret.v
                   = SubSeq(marker.text, pre + 1, Len(marker.text) - post)
                /\ \A i \in 1..pre : marker.text[i] \in Whitespace
                /\ \A i \in (Len(marker.text) - post + 1)..Len(marker.text) :
                      marker.text[i] \in Whitespace
                /\ last.ret.v # <<>>
                   => /\ Head(last.ret.v) \notin Whitespace
                      /\ last.ret.v[Len(last.ret.v)] \notin Whitespace

\* the marker holds a name with whitespace around it, and the call gave the name
C4_Witness ==
    /\ last.op = "get_active_profile"
    /\ marker.kind = "file"
    /\ last.ret.v # marker.text
    /\ last.ret.v = ProfilePool[1]

\* C5: a profile file appears only through save and disappears only through
\* delete_profile; while a non-default profile p is stored and active every
\* delete_profile(p) fails; once a set_active_profile(q) with q # p has
\* succeeded, delete_profile(p) succeeds.
C5_ProfileLifecycle ==
    [][\A p \in ProfileNames :
          /\ (~exists(p) /\ exists(p)')
             => (last'.op = "save" /\ last'.profile = p)
          /\ (exists(p) /\ ~exists(p)')
             => (last'.op = "delete_profile" /\ last'.profile = p)
          /\ (/\ p # <<"default">>
              /\ exists(p)
              /\ get_active_profile = p
              /\ last'.op = "delete_profile"
              /\ last'.profile = p)
             => Raised(last'.ret, "ConfigError")
          /\ (/\ p # <<"default">>
              /\ exists(p)
              /\ get_active_profile = p
              /\ last'.op = "set_active_profile"
              /\ last'.profile # p
              /\ last'.ret = None)
             => (DeleteGuard(p) = "")']_vars

\* C6: load raises nothing but ConfigError and changes nothing in the store; a
\* missing profile file gives the "not found" error, and a failure of parsing,
\* of expansion or of validation gives a ConfigError that carries that failure.
C6_LoadErrors ==
    [][\A profile \in ArgNames, a \in LoadArgs :
          (last'.op = "load" /\ last'.profile = profile /\ last'.args = a)
          => LET path == _get_config_path(LoadProfile(profile))
                 ret == last'.ret
             IN  /\ store' = store
                 /\ ret.kind \in {"Config", "raise"}
                 /\ ret.kind = "raise" =>
                       /\ ret.type = "ConfigError"
                       /\ ~Exists(path) <=> ret.msg = "not found"
                       /\ Exists(path) =>
                             /\ ret.cause.type \in
                                   {"TOMLDecodeError", "ValueError",
                                    "ValidationError"}
                             /\ ret.cause
                                = LoadBody(path, a.expand_env_vars,
                                           a.environ).err]_vars

\* a load that failed on a reference to a variable the environment lacks
C6_Witness ==
    /\ last.op = "load"
    /\ Raised(last.ret, "ConfigError")
    /\ last.ret.cause.type = "ValueError"
    /\ last.ret.cause.detail = <<"TEST_API_KEY">>

\* C7: load("") gives what load(get_active_profile()) gives, hence what
\* load("default") gives when the marker is missing or cannot be read; and
\* load(name) for a non-empty name reads the file of name whatever profile is
\* active: it fails with "not found" exactly when name has no file, and
\* otherwise gives what the file of name holds.
C7_ProfileResolution ==
    [][\A a \in LoadArgs :
          /\ (last'.op = "load" /\ last'.profile = <<>> /\ last'.args = a)
             => /\ last'.ret
                   = load(get_active_profile, a.expand_env_vars, a.environ)
                /\ marker.kind \in {"missing", "dir", "noperm", "binary"}
                   => last'.ret
                      = load(<<"default">>, a.expand_env_vars, a.environ)
          /\ \A name \in ProfileNames :
                (last'.op = "load" /\ last'.profile = name /\ last'.args = a)
                => LET path == _get_config_path(name)
                       r == LoadBody(path, a.expand_env_vars, a.environ)
                   IN  /\ ~Exists(path)
                          <=> (Raised(last'.ret, "ConfigError")
                               /\ last'.ret.msg = "not found")
                       /\ (Exists(path) /\ r.ok)
                          => last'.ret = Return("Config", r.v)
                       /\ (Exists(path) /\ ~r.ok)
                          => (Raised(last'.ret, "ConfigError")
                              /\ last'.ret.cause = r.err)]_vars

\* load("") read the file of an active profile other than "default"
C7_Witness ==
    /\ last.op = "load"
    /\ last.profile = <<>>
    /\ get_active_profile # <<"default">>
    /\ exists(ProfilePool[1])
    /\ exists(<<"default">>)
    /\ last.ret.kind = "Config"
    /\ last.ret.v.profile.name = S(get_active_profile)

\* C8: after save(config, name), load(name, expand_env_vars=False) gives a
\* configuration whose profile.name is name, whatever name the configuration
\* was built with; so every stored profile p loads with profile.name = p.
C8_SavedProfileName ==
    /\ last.op = "save"
       => LET r == load(last.profile, FALSE, <<>>)
          IN  r.kind = "Config" /\ r.v.profile.name = S(last.profile)
    /\ \A p \in ProfileNames :
          exists(p)
          => LET r == load(p, FALSE, <<>>)
             IN  r.kind = "Config" /\ r.v.profile.name = S(p)

\* a configuration built under another name was saved
C8_Witness ==
    /\ last.op = "save"
    /\ last.args.config.profile.name # S(last.profile)
    /\ last.args.config.profile.name # S(<<"default">>)
    /\ Cardinality(DOMAIN files) > 1

\* C9: after save(config, name) of a valid configuration,
\* load(name, expand_env_vars=False) gives a configuration that equals config
\* in every field outside profile.name, except that a field holding the empty
\* string is in no section of the written file and is loaded as its schema
\* default (a validated configuration holds no None); every other field is
\* in the file, a reference to the environment as it was written.
C9_RoundTrip ==
    last.op = "save"
    => LET config == last.args.config
           doc == files[_get_config_path(last.profile)].data
           r == load(last.profile, FALSE, <<>>)
       IN  /\ r.kind = "Config"
           /\ \A s \in SectionNames :
                 /\ s \in DOMAIN doc.v
                 /\ \A f \in FieldNames(s) :
                       LET original == IF s = "profile" THEN S(last.profile)
                                       ELSE config[s][f]
                       IN  /\ f \in DOMAIN doc.v[s].v <=> original # S(<<>>)
                           /\ original # S(<<>>)
                              => (doc.v[s].v[f] = original
                                  /\ r.v[s][f] = original)
                           /\ original = S(<<>>)
                              => r.v[s][f] = Default(s, f)

\* a configuration with an emptied api_host and a reference as api_key was
\* saved and loaded: the api_host is the default, the reference is as written
C9_Witness ==
    /\ last.op = "load"
    /\ last.ret.kind = "Config"
    /\ input.kind = "save"
    /\ input.config.routing.api_host = S(<<>>)
    /\ last.ret.v.routing.api_host = S(<<"api.arize.com">>)
    /\ last.ret.v.auth.api_key = S(Ref("TEST_API_KEY"))

\* the strategy fields of keyword arguments, a field left out being ""
StrategyOf(kwargs) ==
    [f \in StrategyFields |-> IF f \in DOMAIN kwargs THEN kwargs[f].v ELSE <<>>]

\* how many of has_region, has_single and has_base_domain are true
ActiveCount(kwargs) ==
    LET g == StrategyOf(kwargs)
    IN  (IF g.region # <<>> THEN 1 ELSE 0)
        + (IF g.single_host # <<>> \/ g.single_port # <<>> THEN 1 ELSE 0)
        + (IF g.base_domain # <<>> THEN 1 ELSE 0)

\* the routing claim, for a RoutingConfig of n custom endpoint fields
RoutingExclusive(n) ==
    last.op = "RoutingConfig"
    => LET kwargs == last.args
           custom == CustomEndpointFields
           ret == last.ret
           region == StrategyOf(kwargs).region
           plain == RoutingConfig([f \in DOMAIN kwargs \ custom |->
                                     kwargs[f]])
       IN  /\ ActiveCount(kwargs) > 1 => ~ret.ok
           /\ (/\ ActiveCount(kwargs) <= 1
               /\ region \in {<<>>, Ref("REGION")} \cup ValidRegions)
              => ret.ok
           /\ ret.ok = plain.ok
           /\ ~ret.ok => ret.err = plain.err
           /\ ret.ok
              => /\ DOMAIN ret.v \ StrategyFields = custom
                 /\ Cardinality(custom) = n
                 /\ \A f \in StrategyFields : ret.v[f] = plain.v[f]
                 /\ \A f \in custom :
                       ret.v[f] = IF f \in DOMAIN kwargs THEN kwargs[f]
                                  ELSE RoutingDefaults[f]

\* C10: with has_region, has_single and has_base_domain as the claim defines
\* them, RoutingConfig fails whenever more than one is true and, the region
\* being empty, a reference or a known region, succeeds when at most one is
\* true; single_host and single_port together count once; the seven custom
\* endpoint fields of RoutingConfig change neither the outcome nor the other
\* fields, and the result holds each as it was given, or its default.
C10_RoutingExclusive == RoutingExclusive(7)

\* C10 as the claim words it: the custom endpoint fields are six
C10_SixCustomFields == RoutingExclusive(6)

\* single_host and single_port given together, with an emptied custom endpoint
\* field, were accepted
C10_Witness ==
    /\ last.op = "RoutingConfig"
    /\ last.ret.ok
    /\ last.ret.v.single_host = S(<<"x.com">>)
    /\ last.ret.v.single_port = S(<<"443">>)
    /\ \E f \in CustomEndpointFields : last.ret.v[f] = S(<<>>)

\* what a piece stands for after expansion: text is kept, a reference gives
\* the value of its variable when the environment sets it, else its default
Replacement(p, environ) ==
    IF p.kind = "text" THEN p.text
    ELSE IF p.var_name \in DOMAIN environ THEN environ[p.var_name]
    ELSE p.default_value

\* the references of a string that name an unset variable and give no default
Unresolved(pieces, environ) ==
    {i \in 1..Len(pieces) :
        /\ pieces[i].kind = "ref"
        /\ pieces[i].var_name \notin DOMAIN environ
        /\ ~pieces[i].has_default}

\* C11: _expand_env_var(s) replaces every ${NAME} and ${NAME:DEFAULT} of s,
\* each on its own and in place, by the environment's value of NAME when NAME
\* is set, else by DEFAULT when the reference has one (an empty one too), and
\* keeps all other text; when some reference has neither, the call fails with
\* a ValueError naming the first such NAME.
C11_ExpandEnvVar ==
    last.op = "_expand_env_var"
    => LET pieces == input.pieces
           environ == last.args.environ
           failing == Unresolved(pieces, environ)
       IN  IF failing = {}
           THEN /\ last.ret.ok
                /\ last.ret.v
                   = S(Concat([i \in 1..Len(pieces) |->
                                 Replacement(pieces[i], environ)]))
           ELSE /\ ~last.ret.ok
                /\ last.ret.err.type = "ValueError"
                /\ \E i \in failing :
                      /\ \A j \in failing : i <= j
                      /\ last.ret.err.detail = pieces[i].var_name

\* a string of a reference to a set variable, text, and a reference with an
\* empty default to an unset variable was expanded
C11_Witness ==
    /\ last.op = "_expand_env_var"
    /\ last.ret.ok
    /\ Len(input.pieces) = 3
    /\ input.pieces[1].kind = "ref"
    /\ input.pieces[1].var_name \in DOMAIN input.environ
    /\ input.pieces[2].kind = "text"
    /\ input.pieces[3].kind = "ref"
    /\ input.pieces[3].var_name \notin DOMAIN input.environ
    /\ input.pieces[3].default_value = <<>>
    /\ last.ret.v = S(<<"hello", "-">>)

\* C12: Config(**data) fails with a validation error whenever data holds a
\* key that is no field, at the top level or inside any of its sections.
C12_StrictSchema ==
    (last.op = "Config" /\ input.unknown # "nowhere") => ~last.ret.ok

\* a RuntimeError whose text holds one of the two message patterns
Recognizable(e) ==
    /\ e.cls = "RuntimeError"
    /\ \E i \in 1..Len(e.text.parts) :
          e.text.parts[i].kind \in {"with message", "grpc_message"}

ApiPositions(chain) == {i \in 1..Len(chain) : chain[i].cls = "ApiException"}
GrpcPositions(chain) == {i \in 1..Len(chain) : Recognizable(chain[i])}

\* C13: parse_exception gives the record of the first ApiException of the
\* __cause__ chain whenever the chain holds one, wherever a RuntimeError with
\* a recognizable gRPC pattern stands; without an ApiException it gives the
\* gRPC record of the first such RuntimeError; without either it gives None,
\* and handle_errors then prints str(error) of an AxError.
C13_ClassificationPriority ==
    LET chain == input.chain
        api == ApiPositions(chain)
        grpc == GrpcPositions(chain)
    IN  /\ last.op = "parse_exception" =>
             IF api # {}
             THEN \E i \in api :
                     /\ \A j \in api : i <= j
                     /\ last.ret # None
                     /\ last.ret.status = I(chain[i].status)
                     /\ last.ret.reason = S(chain[i].reason)
                     /\ last.ret.body = chain[i].body
             ELSE IF grpc # {}
             THEN \E i \in grpc :
                     /\ \A j \in grpc : i <= j
                     /\ last.ret # None
                     /\ last.ret.headers = NoneValue
                     /\ last.ret.body.text = chain[i].text
             ELSE last.ret = None
        /\ (/\ last.op = "handle_errors"
            /\ chain # <<>>
            /\ chain[1].cls \in DOMAIN exit_code
            /\ api = {}
            /\ grpc = {}) =>
             last.ret.printed
                = <<[fn |-> "error",
                     message |-> [fn |-> "str", error |-> chain[1].text]]>>

\* an error raised from a RuntimeError with a gRPC message that was itself
\* raised from an ApiException was classified as the ApiException
C13_Witness ==
    /\ last.op = "parse_exception"
    /\ Len(input.chain) = 3
    /\ Recognizable(input.chain[2])
    /\ input.chain[3].cls = "ApiException"
    /\ last.ret # None
    /\ last.ret.status = I(input.chain[3].status)
    /\ last.ret.title = S(<<"Conflict">>)

\* the HTTP statuses of the gRPC codes 0..16
HttpStatusOfGrpc ==
    <<200, 499, 500, 400, 504, 404, 409, 403, 429, 412, 409, 400, 501, 500,
      503, 500, 401>>

\* the positions of the parts grpc_status:N of a text, N one or two digits
StatusPositions(text) ==
    {i \in 1..Len(text.parts) :
        /\ text.parts[i].kind = "grpc_status"
        /\ Len(text.parts[i].digits) \in {1, 2}}

\* the number a part grpc_status:N holds
GrpcCode(part) ==
    IF Len(part.digits) = 1 THEN part.digits[1]
    ELSE 10 * part.digits[1] + part.digits[2]

\* C14: when parse_exception classifies a chain by the text of a RuntimeError
\* with a recognizable message, the record's status is that of the gRPC->HTTP
\* table for the code N of the text's first grpc_status:N (404 with reason
\* "Not Found" for 5), and it is 500 with reason "Server Error" when N is
\* outside 0..16 or the text holds no grpc_status:N.
C14_GrpcStatusMapping ==
    LET chain == input.chain
        grpc == GrpcPositions(chain)
    IN  (last.op = "parse_exception" /\ ApiPositions(chain) = {} /\ grpc # {})
        => \E i \in grpc :
              /\ \A j \in grpc : i <= j
              /\ LET text == chain[i].text
                     at == StatusPositions(text)
                 IN  IF at = {}
                     THEN /\ last.ret.status = I(500)
                          /\ last.ret.reason = S(<<"Server Error">>)
                     ELSE \E k \in at :
                             /\ \A l \in at : k <= l
                             /\ LET N == GrpcCode(text.parts[k])
                                IN  IF N \in 0..16
                                    THEN /\ last.ret.status
                                              = I(HttpStatusOfGrpc[N + 1])
                                         /\ N = 5 => last.ret.reason
                                                       = S(<<"Not Found">>)
                                    ELSE /\ last.ret.status = I(500)
                                         /\ last.ret.reason
                                              = S(<<"Server Error">>)

\* a text with grpc_status:5 after its message was classified as 404
\* "Not Found"
C14_Witness ==
    /\ last.op = "parse_exception"
    /\ Len(input.chain) = 1
    /\ input.chain[1].cls = "RuntimeError"
    /\ Len(input.chain[1].text.parts) = 2
    /\ input.chain[1].text.parts[1].kind = "grpc_message"
    /\ input.chain[1].text.parts[2].kind = "grpc_status"
    /\ input.chain[1].text.parts[2].digits = <<5>>
    /\ last.ret # None
    /\ last.ret.status = I(404)
    /\ last.ret.reason = S(<<"Not Found">>)
    /\ last.ret.detail = S(<<"not found">>)

\* C15: the body of a gRPC record is the whole error text when the text has
\* at most 500 characters, and its first 500 characters followed by "..."
\* when it has more.
C15_BodyTruncation ==
    LET chain == input.chain
        grpc == GrpcPositions(chain)
    IN  (last.op = "parse_exception" /\ ApiPositions(chain) = {} /\ grpc # {})
        => \E i \in grpc :
              /\ \A j \in grpc : i <= j
              /\ last.ret.body.text = chain[i].text
              /\ IF chain[i].text.len <= 500
                 THEN /\ last.ret.body.chars = chain[i].text.len
                      /\ ~last.ret.body.ellipsis
                 ELSE /\ last.ret.body.chars = 500
                      /\ last.ret.body.ellipsis

\* the exit code the error taxonomy gives an error class
DeclaredExitCode(cls) ==
    CASE cls \in {"UsageError", "InvalidClientError"} -> 2
      [] cls = "AuthenticationError" -> 3
      [] cls = "APIError" -> 4
      [] cls = "FileIOError" -> 5
      [] cls \in {"ConfigError", "AxError"} -> 1
      [] cls = "KeyboardInterrupt" -> 130
      [] OTHER -> 1

\* C16: a command under handle_errors that raises an error exits with the
\* code of the error's class alone, whatever its cause chain, whether
\* parse_exception classifies it, and with or without --verbose: 2 for
\* UsageError and InvalidClientError, 3 for AuthenticationError, 4 for
\* APIError, 5 for FileIOError, 1 for ConfigError, AxError and any other
\* exception, 130 for KeyboardInterrupt after the cancellation warning, and
\* the own code of a typer.Exit, which prints nothing.
C16_ExitCodes ==
    (last.op = "handle_errors" /\ input.chain # <<>>) =>
        LET e == input.chain[1]
        IN  /\ last.ret.raised.type = "Exit"
            /\ IF e.cls = "Exit"
               THEN /\ last.ret.raised.code = e.exit_code
                    /\ last.ret.printed = <<>>
               ELSE last.ret.raised.code = DeclaredExitCode(e.cls)
            /\ e.cls = "KeyboardInterrupt" =>
                  /\ Len(last.ret.printed) = 2
                  /\ last.ret.printed[2].fn = "warning"

\* an APIError raised from a RuntimeError with a gRPC message was classified
\* and printed in verbose mode, and the command exited with code 4
C16_Witness ==
    /\ last.op = "handle_errors"
    /\ input.verbose
    /\ Len(input.chain) = 2
    /\ input.chain[1].cls = "APIError"
    /\ Recognizable(input.chain[2])
    /\ last.ret.printed[1].message.fn = "_format_verbose_error"
    /\ last.ret.raised = Exit(4)

\* a value that starts with "${" and ends with "}"
RefShaped(v) ==
    Len(v) >= 3 /\ v[1] = "$" /\ v[2] = "{" /\ v[Len(v)] = "}"

\* a region RoutingConfig takes
RegionAccepted(v) == v = <<>> \/ RefShaped(v) \/ v \in ValidRegions

\* the region stored in the default profile's file
StoredRegion == files[DEFAULT_CONFIG_FILE].data.v.routing.v.region.v

\* what the stored region expands to under the environment
ExpandedRegion == _expand_env_var(S(StoredRegion), input.environ)

\* RoutingConfig takes a region exactly when it is empty, a reference
\* "${...}", or a known region
RegionRule ==
    last.op = "RoutingConfig" =>
        (last.ret.ok <=> RegionAccepted(input.kwargs.region.v))

\* a load of the stored reference succeeds without expansion and, when
\* mustfail holds of the expanded value, fails with expansion
LoadOfReference(mustfail) ==
    (last.op = "load" /\ RefShaped(StoredRegion)) =>
        IF ~last.args.expand_env_vars
        THEN /\ last.ret.kind = "Config"
             /\ last.ret.v.routing.region = S(StoredRegion)
        ELSE mustfail => Raised(last.ret, "ConfigError")

\* C17 (as stated): RoutingConfig takes a region exactly when it is empty, a
\* reference "${...}", or a known region; and a stored reference whose
\* expanded value is not a known region makes load with expansion fail while
\* load without expansion succeeds.
C17_RegionValidation ==
    /\ RegionRule
    /\ LoadOfReference(/\ ExpandedRegion.ok
                       /\ ExpandedRegion.v.v \notin ValidRegions)

\* C17 (amended): the same, for a stored reference whose expanded value is
\* not empty, not itself of the form "${...}" and not a known region.
C17_RegionRejected ==
    /\ RegionRule
    /\ LoadOfReference(/\ ExpandedRegion.ok
                       /\ ~RegionAccepted(ExpandedRegion.v.v))

\* the stored reference ${REGION} was loaded with expansion under
\* REGION=INVALID and the load failed on the region's validation
C17_Witness ==
    /\ last.op = "load"
    /\ last.args.expand_env_vars
    /\ StoredRegion = Ref("REGION")
    /\ input.environ = [n \in {<<"REGION">>} |-> <<"INVALID">>]
    /\ Raised(last.ret, "ConfigError")
    /\ last.ret.cause.type = "ValidationError"

\* the api_key given to Config is absent, or a string of whitespace alone
ApiKeyMissing(data) ==
    \/ "auth" \notin DOMAIN data
    \/ "api_key" \notin DOMAIN data["auth"].v
    \/ /\ data["auth"].v.api_key.t = "str"
       /\ \A i \in 1..Len(data["auth"].v.api_key.v) :
             data["auth"].v.api_key.v[i] \in Whitespace

\* k is raw without the whitespace around it
Trimmed(k, raw) ==
    /\ k # <<>>
    /\ k[1] \notin Whitespace
    /\ k[Len(k)] \notin Whitespace
    /\ \E a \in 1..Len(raw) :
          /\ SubSeq(raw, a, a + Len(k) - 1) = k
          /\ \A i \in 1..Len(raw) :
                (i < a \/ i >= a + Len(k)) => raw[i] \in Whitespace

\* C18: Config(**data) fails when data holds no api_key or one that is empty
\* or whitespace alone, and every Config it returns holds the given api_key
\* without the whitespace around it.
C18_ApiKeyRequired ==
    last.op = "Config" =>
        /\ ApiKeyMissing(last.args) => ~last.ret.ok
        /\ last.ret.ok =>
              /\ last.ret.v.auth.api_key.t = "str"
              /\ Trimmed(last.ret.v.auth.api_key.v, last.args["auth"].v.api_key.v)

\* an api_key given with whitespace around it was validated and stored
\* without it
C18_Witness ==
    /\ last.op = "Config"
    /\ last.ret.ok
    /\ last.args["auth"].v.api_key = S(<<" ", "ak-test123", "\n">>)
    /\ last.ret.v.auth.api_key = S(<<"ak-test123">>)

\* the string leaves of a mapping of sections and values whose expansion
\* raises, as pairs of the keys that lead to them
FailingLeaves(data, environ) ==
    LET Fails(v) == v.t = "str" /\ ~_expand_env_var(v, environ).ok
    IN  {<<k>> : k \in {k \in DOMAIN data.v : Fails(data.v[k])}}
        \cup UNION {{<<k, f>> : f \in {f \in DOMAIN data.v[k].v :
                                         Fails(data.v[k].v[f])}} :
                       k \in {k \in DOMAIN data.v : data.v[k].t = "dict"}}

\* leaf is what _expand_config_dict must put for the leaf given
ExpandedLeaf(leaf, given, environ) ==
    IF given.t = "str"
    THEN leaf = _expand_env_var(given, environ).v
    ELSE leaf = given

\* result is data with every string leaf expanded, for a mapping of
\* sections and values
ExpandedTree(result, data, environ) ==
    /\ result.t = "dict"
    /\ DOMAIN result.v = DOMAIN data.v
    /\ \A k \in DOMAIN data.v :
          IF data.v[k].t = "dict"
          THEN /\ result.v[k].t = "dict"
               /\ DOMAIN result.v[k].v = DOMAIN data.v[k].v
               /\ \A f \in DOMAIN data.v[k].v :
                     ExpandedLeaf(result.v[k].v[f], data.v[k].v[f], environ)
          ELSE ExpandedLeaf(result.v[k], data.v[k], environ)

\* C19: a call of _expand_config_dict(data) leaves data as it was; it
\* returns if and only if every string leaf of data expands, whatever the
\* order of the items of data and of its nested mappings, and it then
\* returns a mapping of the same keys and nesting, each string leaf expanded
\* and each integer or boolean leaf as given, the same for every order of
\* the items; the mapping-level _expand_config_dict that load uses gives
\* that result too.
C19_ExpandConfigDict ==
    [][last'.op = "_expand_config_dict" =>
          LET data == ToDict(input.data)
              failing == FailingLeaves(data, input.environ)
          IN  /\ input' = input
              /\ last'.args.data = input.data
              /\ last'.ret.ok <=> failing = {}
              /\ last'.ret.ok =>
                    /\ ExpandedTree(ToDict(last'.ret.v), data, input.environ)
                    /\ [i \in 1..Len(last'.ret.v.items) |->
                           last'.ret.v.items[i].key]
                          = [i \in 1..Len(input.data.items) |->
                               input.data.items[i].key]
                    /\ _expand_config_dict(data, input.environ)
                          = Ok(ToDict(last'.ret.v))
              /\ \A other \in Orderings(data) :
                    LET r == _expand_config_dict_items(other.items,
                                                       input.environ)
                    IN  /\ r.ok <=> last'.ret.ok
                        /\ r.ok => ToDict(r.v) = ToDict(last'.ret.v)
      ]_vars

\* a mapping with references in two nested sections and an integer and a
\* boolean leaf was expanded, its items standing in another order than the
\* sorted one
C19_Witness ==
    /\ last.op = "_expand_config_dict"
    /\ last.ret.ok
    /\ Len(input.data.items) = 3
    /\ input.data.items[1].key = "transport"
    /\ input.data.items[1].value.items[1].key = "stream_max_workers"
    /\ ToDict(input.data).v.auth.v.api_key = S(Ref("API_KEY"))
    /\ ToDict(input.data).v.routing.v.region = S(Ref("REGION"))
    /\ ToDict(last.ret.v).v.auth.v.api_key = S(<<"ak-from-env">>)
    /\ ToDict(last.ret.v).v.routing.v.region = S(<<"US">>)
    /\ ToDict(last.ret.v).v.transport.v.stream_max_workers = I(8)
    /\ ToDict(last.ret.v).v.transport.v.cache_enabled = B(TRUE)

\* the names of the profile files on disk: "default" for the default
\* profile's file, and for each file name.toml of the profiles directory
\* its name
ProfilesOnDisk ==
    {n \in {<<"default">>} : DEFAULT_CONFIG_FILE \in DOMAIN files}
    \cup {SubSeq(p.name, 1, Len(p.name) - 1) :
            p \in {q \in DOMAIN files :
                     /\ q.dir = "PROFILES_DIR"
                     /\ q.name[Len(q.name)] = ".toml"}}

\* C20: list_profiles() returns the names of the profile files on disk,
\* "default" among them exactly when the default profile's file exists and
\* the stem of every file of the profiles directory, each once and in
\* lexicographic order; it returns the empty list when there is no profile
\* file.
C20_ListProfiles ==
    last.op = "list_profiles" =>
        /\ {last.ret.v[i] : i \in 1..Len(last.ret.v)} = ProfilesOnDisk
        /\ \A i, j \in 1..Len(last.ret.v) :
              i < j => StrLess(last.ret.v[i], last.ret.v[j])
        /\ (<<"default">> \in {last.ret.v[i] : i \in 1..Len(last.ret.v)})
              <=> DEFAULT_CONFIG_FILE \in DOMAIN files
        /\ DOMAIN files = {} => last.ret.v = <<>>

\* the default profile and two named ones, one with a space in front of its
\* name, were listed in order
C20_Witness ==
    /\ last.op = "list_profiles"
    /\ last.ret.v = <<<<" ", "dev">>, <<"default">>, <<"dev">>>>

\* the statuses with a suggestion
SuggestedStatuses == {400, 401, 403, 404, 409, 422, 429, 500, 502, 503, 504}

\* a field of the record that is given: not None, and not empty or 0
Given(v) == (v.t = "str" /\ v.v # <<>>) \/ (v.t = "int" /\ v.v # 0)

\* the lines of a text that are of a kind
LinesOf(lines, kind) == {i \in 1..Len(lines) : lines[i].line = kind}

\* C21: the text _format_clean_error gives for a record starts with one line
\* that joins "STATUS REASON", when both are given, and the detail, or the
\* title when there is no detail (no such line when none of them is there);
\* an empty line followed by the suggestion line follows exactly when the
\* status is one of 400, 401, 403, 404, 409, 422, 429, 500, 502, 503, 504;
\* and the last line is the hint to run with --verbose.
C21_CleanRendering ==
    last.op = "_format_clean_error" =>
        LET error == input.error
            lines == last.ret
            both == Given(error.status) /\ Given(error.reason)
            human == IF Given(error.detail) THEN <<error.detail.v>>
                     ELSE IF Given(error.title) THEN <<error.title.v>>
                     ELSE <<>>
            suggested == /\ error.status.t = "int"
                         /\ error.status.v \in SuggestedStatuses
        IN  /\ lines[Len(lines)].line
                  = "Run with --verbose for technical details."
            /\ LinesOf(lines, "Run with --verbose for technical details.")
                  = {Len(lines)}
            /\ IF both \/ human # <<>>
               THEN /\ LinesOf(lines, "summary") = {1}
                    /\ Len(lines[1].joined)
                          = (IF both THEN 1 ELSE 0) + Len(human)
                    /\ both => lines[1].joined[1]
                                  = [status |-> error.status.v,
                                     reason |-> error.reason.v]
                    /\ human # <<>> =>
                          lines[1].joined[Len(lines[1].joined)]
                             = [text |-> human[1]]
               ELSE LinesOf(lines, "summary") = {}
            /\ IF suggested
               THEN /\ LinesOf(lines, "") = {Len(lines) - 2}
                    /\ LinesOf(lines, "suggestion") = {Len(lines) - 1}
               ELSE /\ LinesOf(lines, "") = {}
                    /\ LinesOf(lines, "suggestion") = {}

\* a record with status 404, its reason and a title but no detail was
\* rendered as the summary with the title, the suggestion and the hint
C21_Witness ==
    /\ last.op = "_format_clean_error"
    /\ input.error.status = I(404)
    /\ input.error.detail = NoneValue
    /\ Len(last.ret) = 4
    /\ last.ret[1].joined
          = <<[status |-> 404, reason |-> <<"Not Found">>],
              [text |-> <<"Resource Not Found">>]>>
    /\ last.ret[3].line = "suggestion"

\* the names of the four formats
FormatSet == {"table", "json", "csv", "parquet"}

\* nothing was printed and no file was written
NothingWritten(effects) == effects.printed = <<>> /\ effects.written = <<>>

\* the failures of output_data when its format name counts as name
OutputDispatch(name) ==
    last.op = "output_data" =>
        /\ (name = "table" /\ input.output_file # <<>>)
              => /\ last.ret.raised.type = "FileIOError"
                 /\ NothingWritten(last.ret)
        /\ (name = "parquet" /\ input.output_file = <<>>)
              => /\ last.ret.raised.type = "FileIOError"
                 /\ NothingWritten(last.ret)
        /\ name \notin FormatSet
              => /\ last.ret.raised.type = "ValueError"
                 /\ {last.ret.raised.supported[i] :
                        i \in 1..Len(last.ret.raised.supported)} = FormatSet
                 /\ NothingWritten(last.ret)

\* C22 (as stated): output_data fails with FileIOError for format table with
\* a destination file and for format parquet without one, fails with an
\* error that lists table, json, csv and parquet for a format name outside
\* these four, and prints and writes nothing in these cases.
C22_OutputDispatch == OutputDispatch(input.format_type)

\* the format name in lower case
InLowerCase(name) ==
    CASE name = "TABLE" -> "table"
      [] name = "Json" -> "json"
      [] OTHER -> name

\* C22 (amended): the same with the format name taken without regard to
\* letter case: TABLE is table, and Json is rendered as json.
C22_OutputDispatchAnyCase == OutputDispatch(InLowerCase(input.format_type))

\* table was asked for in capitals with a destination file, and the call
\* failed without writing
C22_Witness ==
    /\ last.op = "output_data"
    /\ input.format_type = "TABLE"
    /\ input.output_file = <<"data", ".csv">>
    /\ last.ret.raised.type = "FileIOError"
    /\ NothingWritten(last.ret)

\* C23: flattening a single-object result gives every list-valued field f a
\* column num_f that holds the length of the list, leaves no list value in
\* the flat record, and copies every scalar field unchanged.
C23_Flattening ==
    last.op = "flatten_basemodel_for_export" =>
        /\ \A f \in DOMAIN input.data :
              input.data[f].t = "list" =>
                 /\ <<"num_">> \o f \in DOMAIN last.ret
                 /\ last.ret[<<"num_">> \o f] = I(Len(input.data[f].v))
        /\ \A key \in DOMAIN last.ret : last.ret[key].t # "list"
        /\ \A f \in DOMAIN input.data :
              input.data[f].t # "list" =>
                 /\ f \in DOMAIN last.ret
                 /\ last.ret[f] = input.data[f]

\* C29: every --output value that parse_output_option accepts is rendered
\* without the error "Unsupported format": get_formatter succeeds on the
\* format of the returned pair.
C29_AcceptedIsRenderable ==
    (last.op = "parse_output_option" /\ last.ret.parsed.ok) =>
        /\ get_formatter(last.ret.parsed.v[1]).ok
        /\ last.ret.effects.raised.type # "ValueError"

\* the section of the configuration that holds a field of the mapping
SectionOf(field) ==
    CHOOSE section \in SectionNames : field \in FieldNames(section)

\* the number of routing strategies among the detected fields
DetectedStrategies(detected) ==
    (IF "region" \in DOMAIN detected THEN 1 ELSE 0)
    + (IF {"single_host", "single_port"} \cap DOMAIN detected # {}
       THEN 1 ELSE 0)
    + (IF "base_domain" \in DOMAIN detected THEN 1 ELSE 0)

\* the fields of the configuration a call need not leave at their defaults
\* besides the detected ones and the profile's name
CreatedFromEnvVars(detected, prompted) ==
    /\ last.ret.ok
    /\ last.ret.v.profile.name = S(input.profile)
    /\ \A f \in DOMAIN detected :
          last.ret.v[SectionOf(f)][f] = S(<<"$", "{", detected[f], "}">>)
    /\ \A section \in SectionNames \ {"profile"} :
          \A f \in FieldNames(section) \ (DOMAIN detected \cup prompted) :
             last.ret.v[section][f] = Default(section, f)

\* the fields present in the environment, by the fixed mapping
Present(environ) ==
    {f \in DOMAIN ENV_VAR_MAPPING : <<ENV_VAR_MAPPING[f]>> \in DOMAIN environ}

\* the claim about detect_env_vars and the ValueError of
\* create_config_from_env_vars
DetectionRule ==
    /\ last.op = "detect_env_vars" =>
          /\ DOMAIN last.ret = Present(input.environ)
          /\ \A f \in DOMAIN last.ret : last.ret[f] = ENV_VAR_MAPPING[f]
    /\ (/\ last.op = "create_config_from_env_vars"
        /\ "api_key" \notin Present(input.environ)) =>
          /\ ~last.ret.ok
          /\ last.ret.err.type = "ValueError"

\* C25 (as stated): create_config_from_env_vars fails with ValueError
\* without a detected api_key; otherwise, with at most one routing strategy
\* detected, the configuration has the given profile name, every detected
\* field equal to the reference to its variable, and every other field at
\* its schema default; detect_env_vars returns the fields of the mapping
\* whose variable is in the environment.
C25_ConfigFromEnvVars ==
    /\ DetectionRule
    /\ (/\ last.op = "create_config_from_env_vars"
        /\ "api_key" \in Present(input.environ)
        /\ DetectedStrategies(detect_env_vars(input.environ)) <= 1) =>
          CreatedFromEnvVars(detect_env_vars(input.environ), {})

\* C25 (amended): the same, but output.format is the format selected at the
\* prompt of read_output_format(), and the call fails when that prompt is
\* cancelled.
C25_ConfigFromEnvVarsAndPrompt ==
    /\ DetectionRule
    /\ (/\ last.op = "create_config_from_env_vars"
        /\ "api_key" \in Present(input.environ)
        /\ DetectedStrategies(detect_env_vars(input.environ)) <= 1) =>
          IF input.selected.t = "none" THEN ~last.ret.ok
          ELSE /\ CreatedFromEnvVars(detect_env_vars(input.environ),
                                     {"format"})
               /\ last.ret.v.output.format = input.selected

\* a configuration was created from a detected key, a detected region and
\* a detected worker count, with json selected
C25_Witness ==
    /\ last.op = "create_config_from_env_vars"
    /\ {"api_key", "region", "stream_max_workers"}
          \subseteq Present(input.environ)
    /\ input.selected = S(<<"json">>)
    /\ last.ret.ok
    /\ last.ret.v.routing.region = S(<<"$", "{", "ARIZE_REGION", "}">>)
    /\ last.ret.v.output.format = S(<<"json">>)

\* the strings that count as true: "true", "1", "yes", "on" in the letter
\* cases of the model
TrueStrings ==
    {<<"true">>, <<"TRUE">>, <<"True">>, <<"1">>, <<"yes">>, <<"Yes">>,
     <<"on">>, <<"ON">>}

\* C27: for a security.request_verify that resolved to a string, the flag
\* to_sdk_config hands to the client is true exactly for "true", "1", "yes"
\* and "on" in any letter case, and is what _to_bool gives for the string.
C27_RequestVerifyCoercion ==
    (/\ last.op = "to_sdk_config"
     /\ last.ret.ok
     /\ last.args.config.security.request_verify.t = "str") =>
        /\ last.ret.v.request_verify
              = _to_bool(last.args.config.security.request_verify)
        /\ Strip(last.args.config.security.request_verify.v)
              = last.args.config.security.request_verify.v
              => last.ret.v.request_verify
                    = (last.args.config.security.request_verify.v
                          \in TrueStrings)

\* every file other than the one of the named profile is as it was
OnlyFileOf(profile) ==
    \A p \in (DOMAIN files \cup DOMAIN files') \ {_get_config_path(profile)} :
        /\ p \in DOMAIN files
        /\ p \in DOMAIN files'
        /\ files'[p] = files[p]

\* C28: save and delete_profile leave the marker alone and touch no file
\* but that of the named profile; set_active_profile touches no profile
\* file; list_profiles, exists, get_active_profile and load change nothing
\* on disk; a call that raises ConfigError leaves the store as it was.
C28_FrameConditions ==
    [][/\ last'.op \in {"save", "delete_profile"} =>
             /\ marker' = marker
             /\ OnlyFileOf(last'.profile)
       /\ last'.op = "set_active_profile" => files' = files
       /\ last'.op \in {"list_profiles", "exists", "get_active_profile",
                        "load"} => store' = store
       /\ (/\ last'.ret.kind = "raise"
           /\ last'.ret.type = "ConfigError") => store' = store]_vars

\* a profile was deleted while others and a marker were on disk
C28_Witness ==
    /\ last.op = "delete_profile"
    /\ last.args.unlinked
    /\ Cardinality(DOMAIN files) >= 2
    /\ marker.kind = "file"

\* C26: under sequential use from an empty store, get_active_profile() is
\* "default" or the name of a profile whose file exists.
C26_ActiveNeverDangles ==
    \/ get_active_profile = <<"default">>
    \/ exists(get_active_profile)

\* C24: from a store with no profiles and no marker a completed init
\* creates "default" without prompting, after which list_profiles() is
\* ["default"] and get_active_profile() is "default"; a completed init
\* under another name saves that profile and makes it the active one; an
\* init that writes "default" leaves the marker unchanged.
C24_EndToEnd ==
    [][(last'.op = "init" /\ last'.ret = None) =>
          /\ (list_profiles = <<>> /\ marker.kind = "missing") =>
                /\ last'.profile = <<"default">>
                /\ ~last'.args.prompted
                /\ list_profiles' = <<<<"default">>>>
                /\ get_active_profile' = <<"default">>
          /\ last'.profile # <<"default">> =>
                /\ _get_config_path(last'.profile) \in DOMAIN files'
                /\ get_active_profile' = last'.profile
          /\ last'.profile = <<"default">> => marker' = marker]_vars

\* the marker names a profile other than "default" that has no file
MarkerDangles ==
    /\ marker.kind = "file"
    /\ get_active_profile # <<"default">>
    /\ ~exists(get_active_profile)

\* C30: with two instances interleaving set_active_profile(p) and
\* delete_profile(p), a state is reached in which the marker names a
\* profile whose file is absent, and in such a state load("") fails with
\* the ConfigError of a profile that is not found.
C30_RaceLeavesDanglingMarker ==
    (last.op = "load" /\ last.profile = <<>> /\ MarkerDangles) =>
        /\ last.ret.kind = "raise"
        /\ last.ret.type = "ConfigError"
        /\ last.ret.msg = "not found"

\* both calls went through, set_active_profile("dev") and
\* delete_profile("dev"), and load("") failed on the dangling marker
C30_Witness ==
    /\ input.use = Idle
    /\ input.delete = Idle
    /\ marker = [kind |-> "file", text |-> ProfilePool[1]]
    /\ ~exists(ProfilePool[1])
    /\ exists(<<"default">>)
    /\ last.op = "load"
    /\ last.profile = <<>>
    /\ last.ret.kind = "raise"
    /\ last.ret.msg = "not found"

====
